---- MODULE Spec2Model ----
(***************************************************************************)
(* Session lifecycle and multi-session orchestration of the CCC            *)
(* coordination server: ClaudeSession / SessionState (session/),           *)
(* SessionOrchestrator (orchestrator/session_orchestrator.py) and the      *)
(* workflow entry point of OrchestratorHandler (server/handlers.py).       *)
(*                                                                         *)
(* A worker process is opaque: it is launched, it may exit by itself with  *)
(* some exit code, or it is terminated.  Wall-clock time is abstracted:    *)
(* "elapsed > timeout_seconds" is an outcome the supervision loop may      *)
(* observe on any iteration while the worker is alive.                     *)
(***************************************************************************)
EXTENDS Integers, Sequences, FiniteSets, TLC

\* ------------------------------------------------------------------ bounds
\* sessions created through SessionHandler.create_session in one behaviour
MaxDirectSessions == 1
\* start() calls made directly on an already started session
MaxRestarts == 1
\* terminate()/cleanup()/terminate_all() calls made by callers
MaxTerminates == 1
\* length of a task list passed directly to execute_workflow
MaxTasks == 2
\* largest retry_count, max_retries and error_count of a free-standing state
MaxProbe == 3
\* the orchestrator's max_parallel_sessions constructor argument
max_parallel_sessions == 1
\* number of task names the task lists given to the TaskDistributor draw on
MaxGraphTasks == 3

\* notifications added to one orchestrator's state
MaxNotifications == 101

\* sessions the orchestrator holds when results are consolidated
MaxKnownSessions == 2

\* length of the session_ids list given to consolidate_results
MaxSessionIds == 3

\* batches distribute_tasks may append beyond one per task
MaxSpareBatches == 1

\* tasks of a parallel workflow followed thread by thread
MaxPoolTasks == 2

\* iterations of the supervision loop before the timeout is reached
MaxPolls == 2

\* output lines each reader thread of a session delivers
MaxLines == 2

\* SessionState.max_retries (dataclass default, never overridden)
max_retries == 3

\* OrchestratorState.to_dict: notifications[-100:], important_events[-50:]
notifications_kept == 100

events_kept == 50

\* ------------------------------------------------------------- vocabulary
\* SessionStatus values
SessionStatus ==
  {"pending", "starting", "running", "completed", "failed", "terminated", "retry"}

\* exit codes of a worker that exits by itself
ExitCodes == {"0", "1"}
\* exit codes of a worker that is terminated: it may handle the signal and
\* exit 0, or die from it
TerminateCodes == {"0", "-15"}

\* TaskDistributor._load_task_templates: the "todo_app" template
todo_app ==
  << [name |-> "api",      dependencies |-> {},
      priority |-> 8, estimated_minutes |-> 45],
     [name |-> "frontend", dependencies |-> {"api"},
      priority |-> 7, estimated_minutes |-> 45],
     [name |-> "tests",    dependencies |-> {"api", "frontend"},
      priority |-> 6, estimated_minutes |-> 30] >>

\* TaskDistributor.task_templates: the "todo_app" template as loaded, and two
\* entries as they are once a template with a dependency cycle and one with
\* a dependency on a task it does not hold have been put into the dict
task_templates ==
  [todo_app |-> todo_app,
   cyclic_app |->
     << [name |-> "api",      dependencies |-> {"tests"},
         priority |-> 8, estimated_minutes |-> 45],
        [name |-> "tests",    dependencies |-> {"api"},
         priority |-> 6, estimated_minutes |-> 30] >>,
   dangling_app |->
     << [name |-> "api",      dependencies |-> {},
         priority |-> 8, estimated_minutes |-> 45],
        [name |-> "frontend", dependencies |-> {"database"},
         priority |-> 7, estimated_minutes |-> 45] >>]

\* the workflow_type arguments callers pass
WorkflowTypes == {"todo_app", "cyclic_app", "dangling_app", "unknown_app"}

NoError == <<>>

VARIABLES
  sessions,          \* orchestrator.sessions: creation index -> ClaudeSession
  session_counter,   \* orchestrator.session_counter
  orch,              \* orchestrator.state (OrchestratorState)
  executor_shutdown, \* orchestrator.executor has been shut down
  wf,                \* the execute_workflow call in progress, if any
  tasks,             \* per task of the workflow: the _execute_task call
  env,               \* how many calls the callers have made (bounded)
  probe,             \* a free-standing SessionState (should_retry inputs)
  plan,              \* a task list given to the TaskDistributor, and its analysis
  logs,              \* orchestrator.state.notifications and .important_events
  disk,              \* orchestrator_state.json in the workspace, and what was loaded from it
  consolidation,     \* a consolidate_results call: its arguments and what it returned
  pool,              \* executor threads inside _execute_task, statement by statement
  sup,               \* one session's supervision thread and a terminate() caller, statement by statement
  cb                 \* threads inside the orchestrator's callbacks, statement by statement

vars == <<sessions, session_counter, orch, executor_shutdown, wf, tasks, env, probe, plan,
          logs, disk, consolidation, pool, sup, cb>>

Ids == DOMAIN sessions

\* ---------------------------------------------------------- SessionState
\* should_retry with the retry budget compared by <= instead of <
should_retry_off_by_one(st) ==
  /\ st.status = "failed"
  /\ st.retry_count <= st.max_retries
  /\ st.error_count > 0

\* SessionState.should_retry
should_retry(st) ==
  /\ st.status = "failed"
  /\ st.retry_count < st.max_retries
  /\ st.error_count > 0

\* SessionState.mark_started
mark_started(st) == [st EXCEPT !.status = "running"]

\* SessionState.mark_completed
mark_completed(st, success) ==
  [st EXCEPT !.status = IF success THEN "completed" ELSE "failed"]

\* SessionState.to_dict: the snapshot handed to the orchestrator
to_dict(st) ==
  [task_name |-> st.task_name, status |-> st.status,
   task_description |-> st.task_description, error_count |-> st.error_count,
   last_error |-> st.last_error, retry_count |-> st.retry_count]

\* cls(**filtered_data): a field the dict does not hold takes the
\* dataclass default
field_or_default(data, field, default) ==
  IF field \in DOMAIN data THEN data[field] ELSE default

\* SessionState.from_dict: the SessionState built from a dict
from_dict(data) ==
  [task_name |-> data.task_name, status |-> data.status,
   task_description |-> field_or_default(data, "task_description", <<>>),
   error_count |-> field_or_default(data, "error_count", 0),
   last_error |-> field_or_default(data, "last_error", NoError),
   retry_count |-> field_or_default(data, "retry_count", 0),
   max_retries |-> field_or_default(data, "max_retries", max_retries)]

\* the SessionState of a session: the dataclass fields the model keeps
session_state(st) ==
  [task_name |-> st.task_name, status |-> st.status,
   task_description |-> st.task_description, error_count |-> st.error_count,
   last_error |-> st.last_error, retry_count |-> st.retry_count,
   max_retries |-> st.max_retries]

\* ClaudeSession.__init__: a new session, no process yet
NewSession(task_name, at_capacity) ==
  [task_name |-> task_name,
   status |-> "pending",
   process |-> "none",          \* none | alive | exited
   returncode |-> "None",
   task_description |-> <<>>,
   error_count |-> 0,
   last_error |-> NoError,
   retry_count |-> 0,
   max_retries |-> max_retries,
   call |-> "constructed",      \* constructed | starting | started
   start_returned |-> "none",   \* what the last start() returned: none | True | False
   monitors |-> 0,              \* _monitor_session threads still running
   broke |-> 0,                 \* of these, past the loop through the timeout break
   queued_warning |-> at_capacity,  \* create_session found the pool at capacity
   terminate_called |-> FALSE,
   timed_out |-> FALSE]

\* ClaudeSession.start, first half: up to the save() before Popen
start_begin(st, task_prompt) ==
  [st EXCEPT !.task_description = task_prompt,
             !.status = "starting",
             !.call = "starting",
             !.start_returned = "none"]

\* --------------------------------------------------- orchestrator callbacks
\* SessionOrchestrator._retry_session
retry_session(st) ==
  LET st1 == [st EXCEPT !.retry_count = @ + 1]
      retry_prompt == <<"retry", st1.retry_count, st1.last_error, st1.task_description>>
  IN start_begin(st1, retry_prompt)

\* SessionOrchestrator._handle_session_completion
handle_session_completion(o, sid, st) ==
  IF st.status = "completed"
  THEN [o EXCEPT !.completed_sessions = Append(@, sid)]
  ELSE [o EXCEPT !.failed_sessions = Append(@, sid)]

\* SessionOrchestrator._on_session_state_change: the state callback.
\* Returns the orchestrator state and the session state it leaves.
on_session_state_change(o, sid, st) ==
  LET o1 == [o EXCEPT !.session_states = (sid :> to_dict(st)) @@ @]
  IN IF st.status \in {"completed", "failed"}
     THEN [orch |-> handle_session_completion(o1, sid, st), sess |-> st]
     ELSE IF st.status = "failed" /\ should_retry(st)
          THEN [orch |-> o1, sess |-> retry_session(st)]
          ELSE [orch |-> o1, sess |-> st]

\* ClaudeSession._notify_state_change applied to session sid holding st
Notify(sid, st) ==
  LET r == on_session_state_change(orch, sid, st)
  IN /\ sessions' = [sessions EXCEPT ![sid] = r.sess]
     /\ orch' = r.orch


\* ------------------------------------------------------------ ClaudeSession
TaskPrompt(task_name) == <<"task", task_name>>

\* a terminate() that reads the exit code anew from every call's wait()
terminated_state_fresh_code(st, rc) ==
  IF st.process = "none"
  THEN [st EXCEPT !.terminate_called = TRUE]
  ELSE [st EXCEPT !.returncode = rc,
                  !.process = "exited",
                  !.status = "terminated",
                  !.terminate_called = TRUE]

\* ClaudeSession.terminate on the session state: nothing without a process
\* (terminate_called only notes that the call was made); a live worker is
\* stopped and leaves exit code rc, an exited one keeps its own
terminated_state(st, rc) ==
  IF st.process = "none"
  THEN [st EXCEPT !.terminate_called = TRUE]
  ELSE [st EXCEPT !.returncode = IF st.process = "alive" THEN rc ELSE @,
                  !.process = "exited",
                  !.status = "terminated",
                  !.terminate_called = TRUE]

\* the end of _monitor_session without the error_count increment
monitor_result_uncounted(st, rc) ==
  LET success == (rc = "0")
      st1 == mark_completed(st, success)
  IN IF success
     THEN st1
     ELSE [st1 EXCEPT !.last_error = <<"Process exited with code", rc>>]

\* the end of _monitor_session: the state recorded for exit code rc
monitor_result(st, rc) ==
  LET success == (rc = "0")
      st1 == mark_completed(st, success)
  IN IF success
     THEN st1
     ELSE [st1 EXCEPT !.last_error = <<"Process exited with code", rc>>,
                      !.error_count = @ + 1]

\* SessionOrchestrator.create_session up to "Store session": the capacity
\* check, the new ClaudeSession, its registration
active_count == Cardinality({i \in Ids : sessions[i].status \in {"running", "starting"}})

\* a capacity test that lets one session more through before it warns
at_capacity_strict(count) == count > max_parallel_sessions

\* create_session, "Check capacity": the test that only records a warning
at_capacity(count) == count >= max_parallel_sessions

register_session(task_name) ==
  /\ session_counter' = session_counter + 1
  /\ sessions' = Append(sessions, NewSession(task_name, at_capacity(active_count)))
  /\ orch' = [orch EXCEPT !.active_sessions = Append(@, Len(sessions) + 1)]

\* SessionHandler.create_session -> SessionOrchestrator.create_session
create_session(task_name) ==
  /\ env.direct < MaxDirectSessions
  /\ register_session(task_name)
  /\ env' = [env EXCEPT !.direct = @ + 1]
  /\ UNCHANGED <<executor_shutdown, wf, tasks, probe, plan, logs, disk, consolidation,
                 pool, sup, cb>>

\* ClaudeSession.start, called by create_session on the session it built, or
\* by a caller on a session that was started before
start(sid) ==
  /\ sessions[sid].call \in {"constructed", "started"}
  /\ sessions[sid].call = "started" => env.restarts < MaxRestarts
  /\ sessions' = [sessions EXCEPT ![sid] = start_begin(@, TaskPrompt(@.task_name))]
  /\ env' = [env EXCEPT !.restarts = IF sessions[sid].call = "started" THEN @ + 1 ELSE @]
  /\ UNCHANGED <<session_counter, orch, executor_shutdown, wf, tasks, probe, plan,
                  logs, disk, consolidation, pool, sup, cb>>

\* a start() whose except branch records the error without counting it
launched_uncounted(st, ok) ==
  IF ok
  THEN [mark_started(st) EXCEPT !.process = "alive",
                                !.returncode = "None",
                                !.call = "started",
                                !.start_returned = "True",
                                !.monitors = @ + 1]
  ELSE [st EXCEPT !.status = "failed",
                  !.last_error = <<"launch failed">>,
                  !.call = "started",
                  !.start_returned = "False"]

\* ClaudeSession.start, second half: Popen succeeds (the process runs, the
\* session is RUNNING, one more supervision thread) or throws (FAILED)
launched(st, ok) ==
  IF ok
  THEN [mark_started(st) EXCEPT !.process = "alive",
                                !.returncode = "None",
                                !.call = "started",
                                !.start_returned = "True",
                                !.monitors = @ + 1]
  ELSE [st EXCEPT !.status = "failed",
                  !.last_error = <<"launch failed">>,
                  !.error_count = @ + 1,
                  !.call = "started",
                  !.start_returned = "False"]

\* the second half of start() as a step of its own; it ends with the callback
launch(sid, ok) ==
  /\ sessions[sid].call = "starting"
  /\ Notify(sid, launched(sessions[sid], ok))
  /\ UNCHANGED <<session_counter, executor_shutdown, wf, tasks, env, probe, plan,
                  logs, disk, consolidation, pool, sup, cb>>

\* the worker process exits by itself
process_exit(sid, rc) ==
  /\ sessions[sid].process = "alive"
  /\ sessions' = [sessions EXCEPT ![sid].process = "exited", ![sid].returncode = rc]
  /\ UNCHANGED <<session_counter, orch, executor_shutdown, wf, tasks, env, probe, plan,
                  logs, disk, consolidation, pool, sup, cb>>

\* _monitor_session, an iteration that finds elapsed > timeout_seconds:
\* terminate() and break
monitor_timeout(sid, rc) ==
  /\ sessions[sid].monitors > sessions[sid].broke
  /\ sessions[sid].process = "alive"
  /\ Notify(sid, [terminated_state(sessions[sid], rc) EXCEPT !.timed_out = TRUE,
                                                             !.broke = @ + 1])
  /\ UNCHANGED <<session_counter, executor_shutdown, wf, tasks, env, probe, plan,
                  logs, disk, consolidation, pool, sup, cb>>

\* _monitor_session after the loop ("Session ended"): by a thread that broke
\* out on timeout, or by one that saw the process gone
monitor_final(sid) ==
  /\ sessions[sid].monitors > 0
  /\ sessions[sid].broke > 0 \/ sessions[sid].process # "alive"
  /\ LET st == sessions[sid]
         st1 == [st EXCEPT !.monitors = @ - 1,
                           !.broke = IF @ > 0 THEN @ - 1 ELSE @]
     IN Notify(sid, monitor_result(st1, st.returncode))
  /\ UNCHANGED <<session_counter, executor_shutdown, wf, tasks, env, probe, plan,
                  logs, disk, consolidation, pool, sup, cb>>

\* ClaudeSession.terminate / cleanup called from outside
\* (SessionHandler.terminate_session)
terminate(sid, rc) ==
  /\ env.terminates < MaxTerminates
  /\ env' = [env EXCEPT !.terminates = @ + 1]
  /\ IF sessions[sid].process = "none"
     THEN /\ sessions' = [sessions EXCEPT ![sid] = terminated_state(@, rc)]
          /\ UNCHANGED orch
     ELSE Notify(sid, terminated_state(sessions[sid], rc))
  /\ UNCHANGED <<session_counter, executor_shutdown, wf, tasks, probe, plan,
                  logs, disk, consolidation, pool, sup, cb>>

\* the loop of terminate_all over sessions i..n
RECURSIVE terminate_from(_, _, _, _)
terminate_from(ss, o, i, rcs) ==
  IF i > Len(ss)
  THEN [sessions |-> ss, orch |-> o]
  ELSE IF ss[i].process = "none"
       THEN terminate_from([ss EXCEPT ![i] = terminated_state(@, rcs[i])], o, i + 1, rcs)
       ELSE LET r == on_session_state_change(o, i, terminated_state(ss[i], rcs[i]))
            IN terminate_from([ss EXCEPT ![i] = r.sess], r.orch, i + 1, rcs)

\* SessionOrchestrator.terminate_all
terminate_all(rcs) ==
  /\ env.terminates < MaxTerminates
  /\ env' = [env EXCEPT !.terminates = @ + 1]
  /\ LET r == terminate_from(sessions, orch, 1, rcs)
     IN sessions' = r.sessions /\ orch' = r.orch
  /\ executor_shutdown' = TRUE
  /\ UNCHANGED <<session_counter, wf, tasks, probe, plan, logs, disk, consolidation,
                 pool, sup, cb>>


\* ----------------------------------------------------------- TaskDistributor
Range(f) == {f[i] : i \in DOMAIN f}

DefOf(defs, name) == CHOOSE d \in Range(defs) : d.name = name

\* the names of a task list
NamesOf(defs) == {d.name : d \in Range(defs)}

\* dep_graph.get(task_name, [])
DepsOf(defs, name) ==
  IF name \in NamesOf(defs) THEN DefOf(defs, name).dependencies ELSE {}

\* can_execute that does not count a task's dependency on itself
can_execute_but_self(defs, task_name, completed) ==
  (DepsOf(defs, task_name) \ {task_name}) \subseteq completed

\* analyze_dependencies.can_execute: all(dep in completed for dep in deps)
can_execute(defs, task_name, completed) ==
  DepsOf(defs, task_name) \subseteq completed

\* a phase loop that stops at the first task it can place
next_phase_first_only(defs, remaining, completed) ==
  LET ready == {n \in remaining : can_execute(defs, n, completed)}
  IN IF ready = {} THEN {} ELSE {CHOOSE n \in ready : TRUE}

\* analyze_dependencies, one pass of the for loop over list(remaining):
\* `completed` is only updated after the pass, so the phase is every
\* remaining name that can execute on the earlier phases
next_phase(defs, remaining, completed) ==
  {n \in remaining : can_execute(defs, n, completed)}

\* TaskDistributor.analyze_dependencies, the while loop: phase after phase;
\* an empty phase while names remain raises the circular-dependency
\* ValueError, whose message carries `remaining`, and nothing is returned
RECURSIVE build_phases(_, _, _)
build_phases(defs, remaining, completed) ==
  IF remaining = {}
  THEN [ok |-> TRUE, phases |-> <<>>]
  ELSE LET phase == next_phase(defs, remaining, completed)
       IN IF phase = {}
          THEN [ok |-> FALSE, error |-> <<"Circular dependency detected in tasks", remaining>>]
          ELSE LET rest == build_phases(defs, remaining \ phase, completed \cup phase)
               IN IF rest.ok
                  THEN [ok |-> TRUE, phases |-> <<phase>> \o rest.phases]
                  ELSE rest

\* the names of a task list, in the list's order
name_list(defs) == [i \in DOMAIN defs |-> defs[i].name]

\* dep_graph.get(name, []) as a list; the dependencies of a task are listed
\* in the order of the task list, as in every template of the repository
RECURSIVE dependency_list_from(_, _, _)
dependency_list_from(defs, name, i) ==
  IF i > Len(defs)
  THEN <<>>
  ELSE (IF defs[i].name \in DepsOf(defs, name) THEN <<defs[i].name>> ELSE <<>>)
         \o dependency_list_from(defs, name, i + 1)

dependency_list(defs, name) == dependency_list_from(defs, name, 1)

\* _find_critical_path.visit: depth first, a name enters `visited` when it
\* is entered and `order` after its dependencies
RECURSIVE visit(_, _, _)
RECURSIVE visit_each(_, _, _)
visit(defs, name, st) ==
  IF name \in st.visited
  THEN st
  ELSE LET inner == visit_each(defs, dependency_list(defs, name),
                               [st EXCEPT !.visited = @ \cup {name}])
       IN [inner EXCEPT !.order = Append(@, name)]

visit_each(defs, names, st) ==
  IF names = <<>>
  THEN st
  ELSE visit_each(defs, Tail(names), visit(defs, Head(names), st))

\* _find_critical_path, "Topological order": for task in tasks: visit(task.name)
topological_order(defs) ==
  visit_each(defs, name_list(defs), [visited |-> {}, order |-> <<>>]).order

\* max() of a non-empty set of numbers
Max(S) == CHOOSE x \in S : \A y \in S : y <= x

\* _find_critical_path, "Calculate forward pass", from the i-th name of
\* `order` on: earliest_start and earliest_finish of the names so far; a
\* dependency without a finish time yet counts 0, earliest_finish.get(dep, 0)
RECURSIVE forward_pass(_, _, _, _)
forward_pass(defs, order, i, times) ==
  IF i > Len(order)
  THEN times
  ELSE LET name == order[i]
           deps == DepsOf(defs, name)
           es == IF deps = {}
                    THEN 0
                    ELSE Max({IF d \in DOMAIN times.earliest_finish
                              THEN times.earliest_finish[d]
                              ELSE 0 : d \in deps})
           ef == es + DefOf(defs, name).estimated_minutes
       IN forward_pass(defs, order, i + 1,
                       [earliest_start |-> (name :> es) @@ times.earliest_start,
                        earliest_finish |-> (name :> ef) @@ times.earliest_finish])

\* the two dicts after the forward pass
earliest_times(defs) ==
  forward_pass(defs, topological_order(defs), 1,
               [earliest_start |-> <<>>, earliest_finish |-> <<>>])

earliest_start(defs, name) == earliest_times(defs).earliest_start[name]

earliest_finish(defs, name) == earliest_times(defs).earliest_finish[name]

\* a critical end that is the last name of the order, whatever its finish time
critical_end_last(order, times) == order[Len(order)]

\* _find_critical_path, max(end_times, key=finish)[0]: the first name of
\* `order` with the largest earliest_finish
critical_end(order, times) ==
  LET largest == Max({times.earliest_finish[n] : n \in Range(order)})
      first == CHOOSE i \in DOMAIN order :
                 /\ times.earliest_finish[order[i]] = largest
                 /\ \A j \in 1..(i - 1) : times.earliest_finish[order[j]] # largest
  IN order[first]

\* _find_critical_path, "Trace back critical path": from `current` back
\* through the first dependency of the list that finishes when the task
\* starts, until a task has no dependencies or none of them matches
RECURSIVE trace_back(_, _, _)
trace_back(defs, times, current) ==
  LET deps == dependency_list(defs, current)
      matching == {i \in DOMAIN deps :
                     times.earliest_finish[deps[i]] = times.earliest_start[current]}
  IN IF deps = <<>> \/ matching = {}
     THEN <<current>>
     ELSE trace_back(defs, times, deps[CHOOSE i \in matching : \A j \in matching : i <= j])
            \o <<current>>

\* TaskDistributor._find_critical_path, called on a task list whose phases
\* have been built; max() of the empty end_times list raises ValueError
find_critical_path(defs) ==
  IF defs = <<>>
  THEN [ok |-> FALSE, error |-> <<"max() arg is an empty sequence">>]
  ELSE LET order == topological_order(defs)
           times == earliest_times(defs)
       IN [ok |-> TRUE, path |-> trace_back(defs, times, critical_end(order, times))]

\* TaskDistributor.analyze_dependencies: the returned dict, or the error raised
analyze_dependencies(defs) ==
  LET built == build_phases(defs, NamesOf(defs), {})
  IN IF ~built.ok
     THEN built
     ELSE LET critical == find_critical_path(defs)
          IN IF ~critical.ok
             THEN critical
             ELSE [ok |-> TRUE, phases |-> built.phases,
                   total_phases |-> Len(built.phases),
                   parallelism |-> [k \in DOMAIN built.phases |-> Cardinality(built.phases[k])],
                   critical_path |-> critical.path]

\* sum() of a list of numbers
RECURSIVE Sum(_)
Sum(numbers) == IF numbers = <<>> THEN 0 ELSE Head(numbers) + Sum(Tail(numbers))

\* a phase time that adds up the phase's tasks
phase_time_added(defs, phase) ==
  Sum([i \in DOMAIN defs |-> IF defs[i].name \in phase THEN defs[i].estimated_minutes ELSE 0])

\* estimate_total_time: max(task.estimated_minutes for task in tasks if
\* task.name in phase)
phase_time(defs, phase) ==
  Max({d.estimated_minutes : d \in {e \in Range(defs) : e.name \in phase}})

\* a sequential total that is the longest task only
total_sequential_longest(defs) ==
  Max({d.estimated_minutes : d \in Range(defs)})

\* estimate_total_time: sum(task.estimated_minutes for task in tasks)
total_sequential(defs) ==
  Sum([i \in DOMAIN defs |-> defs[i].estimated_minutes])

\* TaskDistributor.estimate_total_time: the returned dict, or the error
\* analyze_dependencies raised; speedup_factor is the quotient
\* total_sequential / total_parallel kept as its two terms, 1 when
\* total_parallel is not positive
estimate_total_time(defs) ==
  LET analysis == analyze_dependencies(defs)
  IN IF ~analysis.ok
     THEN analysis
     ELSE LET total_parallel ==
                Sum([k \in DOMAIN analysis.phases |-> phase_time(defs, analysis.phases[k])])
              sequential == total_sequential(defs)
          IN [ok |-> TRUE,
              parallel_execution_minutes |-> total_parallel,
              sequential_execution_minutes |-> sequential,
              time_saved_minutes |-> sequential - total_parallel,
              speedup_factor |-> IF total_parallel > 0
                                 THEN <<sequential, total_parallel>>
                                 ELSE <<1, 1>>]

\* sorted(phase, key=priority, reverse=True); equal priorities keep the
\* phase list's order, which is a set's iteration order: one such order
RECURSIVE sort_by_priority(_, _)
sort_by_priority(defs, names) ==
  IF names = {}
  THEN <<>>
  ELSE LET top == CHOOSE n \in names :
                    \A m \in names : DefOf(defs, m).priority <= DefOf(defs, n).priority
       IN <<top>> \o sort_by_priority(defs, names \ {top})

\* the slices phase_tasks[:max_parallel], then remaining[:max_parallel], ...
RECURSIVE chunks(_, _)
chunks(seq, n) ==
  IF Len(seq) <= n
  THEN IF seq = <<>> THEN <<>> ELSE <<seq>>
  ELSE <<SubSeq(seq, 1, n)>> \o chunks(SubSeq(seq, n + 1, Len(seq)), n)

\* TaskDistributor.distribute_tasks: the batches, phase by phase
RECURSIVE batches_of(_, _, _)
batches_of(defs, phases, max_parallel) ==
  IF phases = <<>>
  THEN <<>>
  ELSE chunks(sort_by_priority(defs, Head(phases)), max_parallel)
         \o batches_of(defs, Tail(phases), max_parallel)

distribute_tasks(defs, max_parallel) ==
  batches_of(defs, analyze_dependencies(defs).phases, max_parallel)

RECURSIVE Flatten(_)
Flatten(seqs) == IF seqs = <<>> THEN <<>> ELSE Head(seqs) \o Flatten(Tail(seqs))

\* OrchestratorHandler.execute_workflow, "Convert to orchestrator format":
\* the batches flattened into one task list
handler_tasks(defs) ==
  LET names == Flatten(distribute_tasks(defs, max_parallel_sessions))
  IN [i \in 1..Len(names) |-> DefOf(defs, names[i])]

\* ------------------------------------------------------------ execute_workflow
\* ThreadPoolExecutor(max_workers=max_parallel_sessions + 2)
max_workers == max_parallel_sessions + 2

Tasks == DOMAIN tasks

IdleWorkflow ==
  [pc |-> "idle", entry |-> "none", workflow_type |-> "none", parallel |-> FALSE,
   defs |-> <<>>, results |-> <<>>, success |-> TRUE, next |-> 1, error |-> NoError]

\* the start of SessionOrchestrator.execute_workflow: the results record;
\* in parallel mode every task is submitted to the executor, which refuses
\* after shutdown
begin_workflow(entry, workflow_type, defs, parallel) ==
  /\ wf.pc = "idle"
  /\ IF parallel /\ executor_shutdown
     THEN /\ wf' = [wf EXCEPT !.pc = "raised", !.entry = entry,
                              !.workflow_type = workflow_type,
                              !.parallel = parallel, !.defs = defs,
                              !.error = <<"cannot schedule new futures after shutdown">>]
          /\ tasks' = <<>>
     ELSE /\ wf' = [wf EXCEPT !.pc = "running", !.entry = entry,
                              !.workflow_type = workflow_type,
                              !.parallel = parallel, !.defs = defs]
          /\ tasks' = [i \in 1..Len(defs) |->
                         [state |-> "queued", session |-> 0, result |-> <<>>]]
  /\ UNCHANGED <<sessions, session_counter, orch, executor_shutdown, env, probe, plan,
                  logs, disk, consolidation, pool, sup, cb>>

\* a caller's SessionOrchestrator.execute_workflow(name, tasks, parallel)
execute_workflow(n, parallel) ==
  /\ n \in 1..MaxTasks
  /\ n <= Len(todo_app)
  /\ begin_workflow("orchestrator", "none", SubSeq(todo_app, 1, n), parallel)

\* get_workflow_tasks falling back on the default template for unknown names
get_workflow_tasks_or_default(workflow_type) ==
  IF workflow_type \in DOMAIN task_templates
  THEN task_templates[workflow_type]
  ELSE task_templates["todo_app"]

\* TaskDistributor.get_workflow_tasks: task_templates.get(workflow_name, [])
get_workflow_tasks(workflow_type) ==
  IF workflow_type \in DOMAIN task_templates THEN task_templates[workflow_type] ELSE <<>>

\* OrchestratorHandler.execute_workflow: `if not task_definitions`
unknown_workflow_type(task_definitions) == task_definitions = <<>>

\* OrchestratorHandler.execute_workflow(name, workflow_type, parallel): the
\* ValueError for an unknown type, the error analyze_dependencies raises, or
\* the task list handed to SessionOrchestrator.execute_workflow
handler_execute_workflow(workflow_type, parallel) ==
  /\ wf.pc = "idle"
  /\ LET task_definitions == get_workflow_tasks(workflow_type)
         analysis == analyze_dependencies(task_definitions)
         raised(error) ==
           /\ wf' = [wf EXCEPT !.pc = "raised", !.entry = "handler",
                               !.workflow_type = workflow_type,
                               !.parallel = parallel, !.error = error]
           /\ UNCHANGED <<sessions, session_counter, orch, executor_shutdown,
                          tasks, env, probe, plan, logs, disk, consolidation,
                          pool, sup, cb>>
     IN IF unknown_workflow_type(task_definitions)
        THEN raised(<<"Unknown workflow type", workflow_type>>)
        ELSE IF ~analysis.ok
             THEN raised(analysis.error)
             ELSE begin_workflow("handler", workflow_type,
                                 handler_tasks(task_definitions), parallel)

\* _execute_task through create_session, taken as one step: the session is
\* registered and start() runs to its return, callback included.  In parallel
\* mode on a free executor thread, tasks taken in submission order; in
\* sequential mode by the loop, for its current task
task_create(t, ok) ==
  /\ tasks[t].state = "queued"
  /\ IF wf.parallel
     THEN /\ wf.pc \in {"running", "done"}
          /\ \A u \in 1..(t - 1) : tasks[u].state # "queued"
          /\ Cardinality({u \in Tasks : tasks[u].state = "running"}) < max_workers
     ELSE wf.pc = "running" /\ wf.next = t
  /\ LET sid == Len(sessions) + 1
         name == wf.defs[t].name
         st == launched(start_begin(NewSession(name, at_capacity(active_count)), TaskPrompt(name)), ok)
         o == [orch EXCEPT !.active_sessions = Append(@, sid)]
         r == on_session_state_change(o, sid, st)
     IN /\ session_counter' = session_counter + 1
        /\ sessions' = Append(sessions, r.sess)
        /\ orch' = r.orch
        /\ tasks' = [tasks EXCEPT ![t].state = "running", ![t].session = sid]
  /\ UNCHANGED <<executor_shutdown, wf, env, probe, plan, logs, disk, consolidation,
                 pool, sup, cb>>

\* ClaudeSession.wait_for_completion: returns once there is no live process
wait_for_completion(st) == st.status = "completed"

\* _execute_task, "Collect results"
task_result(sid, st) ==
  LET success == wait_for_completion(st)
  IN [session_id |-> sid, success |-> success,
      error |-> IF success THEN NoError ELSE st.last_error]

\* a sequential loop without the break on failure
continue_sequential_always(result) == TRUE

\* the sequential loop of execute_workflow after a task's result: whether it
\* goes on to the next task
continue_sequential(result) == result.success

\* a collecting loop that stops at the first failed task
continue_parallel_until_failure(result) == result.success

\* the collecting loop of parallel mode after a task's result: whether it goes
\* on to the next future
continue_parallel(result) == TRUE

\* the success flag after one more task result in parallel mode
parallel_success(success, result) == success

\* _execute_task from wait_for_completion on; in sequential mode also the
\* loop's bookkeeping for the result
task_finish(t) ==
  /\ wf.pc \in {"running", "done"}
  /\ tasks[t].state = "running"
  /\ LET sid == tasks[t].session
         st == sessions[sid]
         result == task_result(sid, st)
         name == wf.defs[t].name
     IN /\ st.call = "started"
        /\ st.process # "alive"
        /\ tasks' = [tasks EXCEPT ![t].state = "finished", ![t].result = result]
        /\ IF wf.parallel
           THEN UNCHANGED wf
           ELSE wf' = [wf EXCEPT
                  !.results = (name :> result) @@ @,
                  !.success = IF result.success THEN @ ELSE FALSE,
                  !.next = @ + 1,
                  !.pc = IF continue_sequential(result) /\ t < Len(wf.defs)
                         THEN "running" ELSE "done"]
  /\ UNCHANGED <<sessions, session_counter, orch, executor_shutdown, env, probe, plan,
                  logs, disk, consolidation, pool, sup, cb>>

\* parallel mode, "Collect results": future.result() of the next task
collect(t) ==
  /\ wf.pc = "running" /\ wf.parallel
  /\ wf.next = t
  /\ tasks[t].state = "finished"
  /\ LET result == tasks[t].result
     IN wf' = [wf EXCEPT
          !.results = (wf.defs[t].name :> result) @@ @,
          !.success = parallel_success(@, result),
          !.next = @ + 1,
          !.pc = IF continue_parallel(result) /\ t < Len(wf.defs)
                 THEN "running" ELSE "done"]
  /\ UNCHANGED <<sessions, session_counter, orch, executor_shutdown, tasks, env, probe, plan,
                  logs, disk, consolidation, pool, sup, cb>>

\* parallel mode: future.result(timeout=3600) gives up on the next task
future_timeout(t) ==
  /\ wf.pc = "running" /\ wf.parallel
  /\ wf.next = t
  /\ tasks[t].state # "finished"
  /\ wf' = [wf EXCEPT
       !.results = (wf.defs[t].name :> [error |-> <<"TimeoutError">>]) @@ @,
       !.success = FALSE,
       !.next = @ + 1,
       !.pc = IF t < Len(wf.defs) THEN "running" ELSE "done"]
  /\ UNCHANGED <<sessions, session_counter, orch, executor_shutdown, tasks, env, probe, plan,
                  logs, disk, consolidation, pool, sup, cb>>

\* ------------------------------------------------------------ specification
InitProbe == [st |-> NewSession("api", FALSE), answer |-> "none", loaded |-> <<>>]

\* OrchestratorState as __init__ leaves it: the notification of
\* "CCC Orchestrator initialized and ready", no events. Notifications are
\* numbered in the order they were added
InitLogs == [notifications |-> <<1>>, important_events |-> <<>>]

\* no orchestrator_state.json in the workspace, nothing loaded
EmptyDisk == [file |-> <<>>, loaded |-> <<>>]

\* consolidate_results has not been called
IdleConsolidation == [pc |-> "idle"]

\* no executor thread is inside _execute_task
IdlePool == [pc |-> "idle"]

\* no session is followed statement by statement
IdleSupervision == [pc |-> "idle"]

\* no thread is inside a callback
IdleCallbacks == [pc |-> "idle"]

\* no task list has been given to the TaskDistributor
IdlePlan ==
  [pc |-> "idle", tasks |-> <<>>, analysis |-> [ok |-> FALSE], estimate |-> [ok |-> FALSE],
   max_parallel |-> 1,     \* distribute_tasks: its max_parallel argument
   phases_left |-> <<>>,   \* the phases its for loop has not reached
   remaining |-> <<>>,     \* its `remaining` list
   batches |-> <<>>,       \* its `batches` list
   passes |-> 0]           \* the parity of the passes of its while loop

Init ==
  /\ sessions = <<>>
  /\ session_counter = 0
  /\ orch = [active_sessions |-> <<>>, completed_sessions |-> <<>>,
             failed_sessions |-> <<>>, session_states |-> <<>>]
  /\ executor_shutdown = FALSE
  /\ logs = InitLogs
  /\ disk = EmptyDisk
  /\ pool = IdlePool
  /\ sup = IdleSupervision
  /\ cb = IdleCallbacks
  /\ consolidation = IdleConsolidation
  /\ wf = IdleWorkflow
  /\ tasks = <<>>
  /\ env = [direct |-> 0, restarts |-> 0, terminates |-> 0]
  /\ probe = InitProbe
  /\ plan = IdlePlan

\* the worker and the supervision thread of a started session
SessionStep ==
  \/ \E sid \in Ids, rc \in ExitCodes : process_exit(sid, rc)
  \/ \E sid \in Ids, rc \in TerminateCodes : monitor_timeout(sid, rc)
  \/ \E sid \in Ids : monitor_final(sid)

\* sessions created one by one and driven by callers
Next ==
  \/ create_session("api")
  \/ \E sid \in Ids : start(sid)
  \/ \E sid \in Ids, ok \in BOOLEAN : launch(sid, ok)
  \/ SessionStep
  \/ \E sid \in Ids, rc \in TerminateCodes : terminate(sid, rc)
  \/ \E rcs \in [Ids -> TerminateCodes] : terminate_all(rcs)

Spec == Init /\ [][Next]_vars

\* one workflow, its sessions created by its tasks
WorkflowNext ==
  \/ \E n \in 1..MaxTasks, parallel \in BOOLEAN : execute_workflow(n, parallel)
  \/ \E workflow_type \in WorkflowTypes, parallel \in BOOLEAN :
       handler_execute_workflow(workflow_type, parallel)
  \/ \E t \in Tasks, ok \in BOOLEAN : task_create(t, ok)
  \/ \E t \in Tasks : task_finish(t)
  \/ \E t \in Tasks : collect(t)
  \/ \E t \in Tasks : future_timeout(t)
  \/ SessionStep

WorkflowSpec == Init /\ [][WorkflowNext]_vars

\* workflow submissions through OrchestratorHandler, made while sessions
\* created one by one exist, followed up to the hand-over to
\* SessionOrchestrator.execute_workflow (WorkflowSpec goes on from there)
SubmitNext ==
  \/ create_session("api")
  \/ \E sid \in Ids : start(sid)
  \/ \E sid \in Ids, ok \in BOOLEAN : launch(sid, ok)
  \/ SessionStep
  \/ \E workflow_type \in WorkflowTypes, parallel \in BOOLEAN :
       handler_execute_workflow(workflow_type, parallel)

SubmitSpec == Init /\ [][SubmitNext]_vars


\* ------------------------------------------- should_retry on arbitrary states
\* a SessionState with any status and counters, and the last answer of
\* should_retry() for it
ProbeStates ==
  {[NewSession("api", FALSE) EXCEPT !.status = s, !.retry_count = r,
                                    !.max_retries = m, !.error_count = e] :
     s \in SessionStatus, r \in 0..MaxProbe, m \in 0..MaxProbe, e \in 0..MaxProbe}

RetryInit ==
  /\ sessions = <<>>
  /\ session_counter = 0
  /\ orch = [active_sessions |-> <<>>, completed_sessions |-> <<>>,
             failed_sessions |-> <<>>, session_states |-> <<>>]
  /\ executor_shutdown = FALSE
  /\ logs = InitLogs
  /\ disk = EmptyDisk
  /\ pool = IdlePool
  /\ sup = IdleSupervision
  /\ cb = IdleCallbacks
  /\ consolidation = IdleConsolidation
  /\ wf = IdleWorkflow
  /\ tasks = <<>>
  /\ env = [direct |-> 0, restarts |-> 0, terminates |-> 0]
  /\ \E st \in ProbeStates : probe = [InitProbe EXCEPT !.st = st]
  /\ plan = IdlePlan

\* should_retry() is called
probe_should_retry ==
  /\ probe' = [probe EXCEPT !.answer = IF should_retry(probe.st) THEN "yes" ELSE "no"]
  /\ UNCHANGED <<sessions, session_counter, orch, executor_shutdown, wf, tasks, env, plan,
                  logs, disk, consolidation, pool, sup, cb>>

\* one more error is recorded, as at the end of _monitor_session
probe_record_error(rc) ==
  /\ probe.st.error_count < MaxProbe
  /\ probe' = [InitProbe EXCEPT !.st = monitor_result(probe.st, rc)]
  /\ UNCHANGED <<sessions, session_counter, orch, executor_shutdown, wf, tasks, env, plan,
                  logs, disk, consolidation, pool, sup, cb>>

\* the session is re-armed, as _retry_session does
probe_retry ==
  /\ probe.st.retry_count < MaxProbe
  /\ probe' = [InitProbe EXCEPT !.st = retry_session(probe.st)]
  /\ UNCHANGED <<sessions, session_counter, orch, executor_shutdown, wf, tasks, env, plan,
                  logs, disk, consolidation, pool, sup, cb>>

\* SessionState.save then SessionState.load: the state is written to
\* session_state.json as to_dict gives it and read back through from_dict
probe_save_load ==
  /\ probe.loaded = <<>>
  /\ probe' = [probe EXCEPT !.loaded = <<from_dict(to_dict(probe.st))>>]
  /\ UNCHANGED <<sessions, session_counter, orch, executor_shutdown, wf, tasks, env, plan,
                  logs, disk, consolidation, pool, sup, cb>>

RetryNext ==
  \/ probe_should_retry
  \/ probe_save_load
  \/ \E rc \in {"1", "-15"} : probe_record_error(rc)
  \/ probe_retry

RetrySpec == RetryInit /\ [][RetryNext]_vars

\* ------------------------------------------- the orchestrator state on disk
\* seq[-n:]
last(seq, n) ==
  IF Len(seq) <= n THEN seq ELSE SubSeq(seq, Len(seq) - n + 1, Len(seq))

\* the OrchestratorState in memory: the session lists with the two logs
orchestrator_state ==
  [active_sessions |-> orch.active_sessions,
   completed_sessions |-> orch.completed_sessions,
   failed_sessions |-> orch.failed_sessions,
   session_states |-> orch.session_states,
   notifications |-> logs.notifications,
   important_events |-> logs.important_events]

\* OrchestratorState.to_dict
orchestrator_to_dict(state) ==
  [active_sessions |-> state.active_sessions,
   completed_sessions |-> state.completed_sessions,
   failed_sessions |-> state.failed_sessions,
   session_states |-> state.session_states,
   notifications |-> last(state.notifications, notifications_kept),
   important_events |-> last(state.important_events, events_kept)]

\* OrchestratorState.from_dict: cls(**filtered_data), the dataclass default
\* for a field the dict does not hold
orchestrator_from_dict(data) ==
  [active_sessions |-> field_or_default(data, "active_sessions", <<>>),
   completed_sessions |-> field_or_default(data, "completed_sessions", <<>>),
   failed_sessions |-> field_or_default(data, "failed_sessions", <<>>),
   session_states |-> field_or_default(data, "session_states", <<>>),
   notifications |-> field_or_default(data, "notifications", <<>>),
   important_events |-> field_or_default(data, "important_events", <<>>)]

\* SessionOrchestrator._notify -> OrchestratorState.add_notification, as an
\* operation that does nothing else calls it (consolidate_results of no
\* session): the message is appended, nothing is dropped
notify ==
  /\ Len(logs.notifications) < MaxNotifications
  /\ logs' = [logs EXCEPT !.notifications = Append(@, Len(@) + 1)]
  /\ UNCHANGED <<sessions, session_counter, orch, executor_shutdown, wf, tasks, env, probe,
                 plan, disk, consolidation, pool, sup, cb>>

\* SessionOrchestrator.save_state -> OrchestratorState.save: the dict of
\* to_dict replaces orchestrator_state.json
save_state ==
  /\ disk' = [file |-> <<orchestrator_to_dict(orchestrator_state)>>, loaded |-> <<>>]
  /\ UNCHANGED <<sessions, session_counter, orch, executor_shutdown, wf, tasks, env, probe,
                 plan, logs, consolidation, pool, sup, cb>>

\* OrchestratorState.load(orchestrator_state.json)
load_state ==
  /\ disk.file # <<>>
  /\ disk' = [disk EXCEPT !.loaded = <<orchestrator_from_dict(disk.file[1])>>]
  /\ UNCHANGED <<sessions, session_counter, orch, executor_shutdown, wf, tasks, env, probe,
                 plan, logs, consolidation, pool, sup, cb>>

\* SessionOrchestrator.__init__ on the workspace of an earlier orchestrator:
\* a new OrchestratorState, no sessions, counter 0, a new executor; the
\* constructor does not read orchestrator_state.json
restart ==
  /\ sessions' = <<>>
  /\ session_counter' = 0
  /\ orch' = [active_sessions |-> <<>>, completed_sessions |-> <<>>,
              failed_sessions |-> <<>>, session_states |-> <<>>]
  /\ executor_shutdown' = FALSE
  /\ logs' = InitLogs
  /\ UNCHANGED <<wf, tasks, env, probe, plan, disk, consolidation, pool, sup, cb>>

\* sessions are created and run, the state is saved, and an orchestrator is
\* constructed anew on the workspace
RestartNext ==
  \/ create_session("api")
  \/ \E sid \in Ids : start(sid)
  \/ \E sid \in Ids, ok \in BOOLEAN : launch(sid, ok)
  \/ SessionStep
  \/ save_state
  \/ restart

RestartSpec == Init /\ [][RestartNext]_vars

LogNext == notify \/ save_state \/ load_state

LogSpec == Init /\ [][LogNext]_vars

\* ------------------------------------------------------ consolidate_results
\* ids of the sessions the orchestrator holds, and an id it does not hold
KnownIdPool == <<"s1", "s2", "s3", "s4">>

KnownIds == {KnownIdPool[i] : i \in 1..MaxKnownSessions}

UnknownIds == {"ghost"}

\* the files a session's workspace may hold, by directory (relative to the
\* workspace) and name, in the order rglob yields them
WorkspaceFilePool ==
  <<[dir |-> <<>>, name |-> "main.py"],
    [dir |-> <<"src">>, name |-> "app.py"],
    [dir |-> <<>>, name |-> "session.log"]>>

\* file.name.endswith('.log'), on the names of the pool
ends_with_log(name) == name \in {"session.log"}

\* ClaudeSession.get_workspace_files: every file of the workspace, at any
\* depth, whose name does not end in .log
get_workspace_files(workspace) ==
  SelectSeq(WorkspaceFilePool,
            LAMBDA file : file \in workspace /\ ~ends_with_log(file.name))

\* dest = output_dir / session_id / file.relative_to(session.workspace)
dest_of(session_id, file) == <<"output_dir", session_id>> \o file.dir \o <<file.name>>

\* a loop that ends at the first id self.sessions does not hold
RECURSIVE consolidate_from_until_unknown(_, _, _, _)
consolidate_from_until_unknown(workspaces, session_ids, i, acc) ==
  IF i > Len(session_ids)
  THEN acc
  ELSE LET session_id == session_ids[i]
       IN IF session_id \notin DOMAIN workspaces
          THEN [acc EXCEPT !.errors = Append(@, <<"Session not found", session_id>>)]
          ELSE LET files == get_workspace_files(workspaces[session_id])
                   dests == [k \in DOMAIN files |-> dest_of(session_id, files[k])]
               IN consolidate_from_until_unknown(workspaces, session_ids, i + 1,
                    [acc EXCEPT !.files_collected = @ \o dests,
                                !.output = @ \cup Range(dests)])

\* consolidate_results, the loop over session_ids from the i-th on: an id
\* that self.sessions does not hold adds an error and the loop goes on; a
\* session's files are copied under output_dir and listed
RECURSIVE consolidate_from(_, _, _, _)
consolidate_from(workspaces, session_ids, i, acc) ==
  IF i > Len(session_ids)
  THEN acc
  ELSE LET session_id == session_ids[i]
       IN IF session_id \notin DOMAIN workspaces
          THEN consolidate_from(workspaces, session_ids, i + 1,
                 [acc EXCEPT !.errors = Append(@, <<"Session not found", session_id>>)])
          ELSE LET files == get_workspace_files(workspaces[session_id])
                   dests == [k \in DOMAIN files |-> dest_of(session_id, files[k])]
               IN consolidate_from(workspaces, session_ids, i + 1,
                    [acc EXCEPT !.files_collected = @ \o dests,
                                !.output = @ \cup Range(dests)])

\* consolidate_results is about to be called: the orchestrator holds some
\* sessions, each with a workspace of files, and any list of ids is given
ConsolidateInit ==
  /\ sessions = <<>>
  /\ session_counter = 0
  /\ orch = [active_sessions |-> <<>>, completed_sessions |-> <<>>,
             failed_sessions |-> <<>>, session_states |-> <<>>]
  /\ executor_shutdown = FALSE
  /\ logs = InitLogs
  /\ disk = EmptyDisk
  /\ pool = IdlePool
  /\ sup = IdleSupervision
  /\ cb = IdleCallbacks
  /\ wf = IdleWorkflow
  /\ tasks = <<>>
  /\ env = [direct |-> 0, restarts |-> 0, terminates |-> 0]
  /\ probe = InitProbe
  /\ plan = IdlePlan
  /\ \E known \in SUBSET KnownIds :
       \E workspaces \in [known -> SUBSET Range(WorkspaceFilePool)] :
         \E n \in 0..MaxSessionIds :
           \E session_ids \in [1..n -> KnownIds \cup UnknownIds] :
             consolidation = [pc |-> "given", workspaces |-> workspaces,
                              session_ids |-> session_ids,
                              files_collected |-> <<>>, errors |-> <<>>, output |-> {}]

\* SessionOrchestrator.consolidate_results(session_ids, output_dir) runs and
\* returns its summary; the notification of the count is added to the state
consolidate_results ==
  /\ consolidation.pc = "given"
  /\ LET r == consolidate_from(consolidation.workspaces, consolidation.session_ids, 1,
                               [files_collected |-> <<>>, errors |-> <<>>, output |-> {}])
     IN consolidation' = [consolidation EXCEPT !.pc = "returned",
                                               !.files_collected = r.files_collected,
                                               !.errors = r.errors,
                                               !.output = r.output]
  /\ logs' = [logs EXCEPT !.notifications = Append(@, Len(@) + 1)]
  /\ UNCHANGED <<sessions, session_counter, orch, executor_shutdown, wf, tasks, env, probe,
                 plan, disk, pool, sup, cb>>

ConsolidateNext == consolidate_results

ConsolidateSpec == ConsolidateInit /\ [][ConsolidateNext]_vars

\* ------------------------------------------ the TaskDistributor on task lists
\* task names, in the order the lists below keep
TaskNamePool == <<"t1", "t2", "t3", "t4", "t5">>

TaskNames == {TaskNamePool[i] : i \in 1..MaxGraphTasks}

\* the TaskDefinition list of the names in S, from the i-th name of the pool
\* on, with dependencies deps[name], estimated_minutes minutes[name] and the
\* dataclass default of priority
RECURSIVE task_list(_, _, _, _)
task_list(S, deps, minutes, i) ==
  IF i > Len(TaskNamePool)
  THEN <<>>
  ELSE (IF TaskNamePool[i] \in S
        THEN <<[name |-> TaskNamePool[i], dependencies |-> deps[TaskNamePool[i]],
                priority |-> 5, estimated_minutes |-> minutes[TaskNamePool[i]]]>>
        ELSE <<>>) \o task_list(S, deps, minutes, i + 1)

\* a list of distinct tasks over TaskNames is given, each task depending on
\* any names: on itself, on members of the list, on names that are not in it
PlanInit ==
  /\ sessions = <<>>
  /\ session_counter = 0
  /\ orch = [active_sessions |-> <<>>, completed_sessions |-> <<>>,
             failed_sessions |-> <<>>, session_states |-> <<>>]
  /\ executor_shutdown = FALSE
  /\ logs = InitLogs
  /\ disk = EmptyDisk
  /\ pool = IdlePool
  /\ sup = IdleSupervision
  /\ cb = IdleCallbacks
  /\ consolidation = IdleConsolidation
  /\ wf = IdleWorkflow
  /\ tasks = <<>>
  /\ env = [direct |-> 0, restarts |-> 0, terminates |-> 0]
  /\ probe = InitProbe
  /\ \E S \in SUBSET TaskNames : \E deps \in [S -> SUBSET TaskNames] :
       plan = [IdlePlan EXCEPT !.pc = "given", !.tasks = task_list(S, deps, [n \in S |-> 30], 1)]

\* TaskDistributor.analyze_dependencies(tasks) is called
plan_analyze ==
  /\ plan.pc = "given"
  /\ plan' = [plan EXCEPT !.pc = "analyzed", !.analysis = analyze_dependencies(plan.tasks)]
  /\ UNCHANGED <<sessions, session_counter, orch, executor_shutdown, wf, tasks, env, probe,
                  logs, disk, consolidation, pool, sup, cb>>

PlanNext == plan_analyze

PlanSpec == PlanInit /\ [][PlanNext]_vars

\* ------------------------------------- the TaskDistributor on valid task sets
\* estimated_minutes of the tasks given
Durations == {0, 10, 20}

\* the names of `defs` that are on a dependency cycle or depend on a name
\* that is not in the list: the lists the configuration rules exclude
Invalid(defs) ==
  LET names == NamesOf(defs)
      reach == [n \in names |->
                 LET RECURSIVE closure(_)
                     closure(S) == LET more == S \cup UNION {DepsOf(defs, m) : m \in S}
                                   IN IF more = S THEN S ELSE closure(more)
                 IN closure(DepsOf(defs, n))]
  IN {n \in names : n \in reach[n] \/ ~(reach[n] \subseteq names)}

\* a task set is given: distinct tasks over TaskNames whose dependencies are
\* tasks of the set and acyclic, with any durations (the empty set too)
EstimateInit ==
  /\ sessions = <<>>
  /\ session_counter = 0
  /\ orch = [active_sessions |-> <<>>, completed_sessions |-> <<>>,
             failed_sessions |-> <<>>, session_states |-> <<>>]
  /\ executor_shutdown = FALSE
  /\ logs = InitLogs
  /\ disk = EmptyDisk
  /\ pool = IdlePool
  /\ sup = IdleSupervision
  /\ cb = IdleCallbacks
  /\ consolidation = IdleConsolidation
  /\ wf = IdleWorkflow
  /\ tasks = <<>>
  /\ env = [direct |-> 0, restarts |-> 0, terminates |-> 0]
  /\ probe = InitProbe
  /\ \E S \in SUBSET TaskNames : \E deps \in [S -> SUBSET S] :
       /\ Invalid(task_list(S, deps, [n \in S |-> 0], 1)) = {}
       /\ \E minutes \in [S -> Durations] :
            plan = [IdlePlan EXCEPT !.pc = "given", !.tasks = task_list(S, deps, minutes, 1)]

\* TaskDistributor.estimate_total_time(tasks) is called, on a list that has
\* been analyzed or not
plan_estimate ==
  /\ plan.pc \in {"given", "analyzed"}
  /\ plan' = [plan EXCEPT !.pc = "estimated", !.estimate = estimate_total_time(plan.tasks)]
  /\ UNCHANGED <<sessions, session_counter, orch, executor_shutdown, wf, tasks, env, probe,
                  logs, disk, consolidation, pool, sup, cb>>

EstimateNext == plan_analyze \/ plan_estimate

EstimateSpec == EstimateInit /\ [][EstimateNext]_vars

\* ------------------------------------------ distribute_tasks, step by step
\* priorities of the tasks given (the dataclass default and a template's)
Priorities == {5, 8}

\* the max_parallel arguments given
ParallelArguments == {-1, 0, 1, 2}

\* seq[:n] of Python, for any integer n
slice_to(seq, n) ==
  IF n >= 0
  THEN SubSeq(seq, 1, IF n < Len(seq) THEN n ELSE Len(seq))
  ELSE SubSeq(seq, 1, IF Len(seq) + n > 0 THEN Len(seq) + n ELSE 0)

\* seq[n:] of Python, for any integer n
slice_from(seq, n) ==
  IF n >= 0
  THEN SubSeq(seq, (IF n < Len(seq) THEN n ELSE Len(seq)) + 1, Len(seq))
  ELSE SubSeq(seq, (IF Len(seq) + n > 0 THEN Len(seq) + n ELSE 0) + 1, Len(seq))

\* the lists sorted(phase, key=priority, reverse=True) can give: the sort is
\* stable and the phase list has the iteration order of a set of strings, so
\* tasks of equal priority come in any order
sorted_by_priority(defs, phase) ==
  {s \in [1..Cardinality(phase) -> phase] :
     /\ \A i, j \in DOMAIN s : i # j => s[i] # s[j]
     /\ \A i, j \in DOMAIN s :
          i < j => DefOf(defs, s[i]).priority >= DefOf(defs, s[j]).priority}

\* the tasks of `defs` with the priorities prio[name]
with_priorities(defs, prio) ==
  [i \in DOMAIN defs |-> [defs[i] EXCEPT !.priority = prio[defs[i].name]]]

\* distribute_tasks(tasks, max_parallel) is called on a task set as in
\* EstimateInit, with any priorities, and any of the max_parallel arguments,
\* and runs up to its for loop: analyze_dependencies returns the phases or
\* raises
distribute_begin ==
  /\ plan.pc = "idle"
  /\ \E S \in SUBSET TaskNames : \E deps \in [S -> SUBSET S] :
       /\ Invalid(task_list(S, deps, [n \in S |-> 30], 1)) = {}
       \* analyze_dependencies reads no priority
       /\ \E analysis \in {analyze_dependencies(task_list(S, deps, [n \in S |-> 30], 1))} :
          \E prio \in [S -> Priorities], max_parallel \in ParallelArguments :
            plan' = [IdlePlan EXCEPT
                       !.pc = IF analysis.ok THEN "distributing" ELSE "raised",
                       !.tasks = with_priorities(task_list(S, deps, [n \in S |-> 30], 1), prio),
                       !.max_parallel = max_parallel,
                       !.analysis = analysis,
                       !.phases_left = IF analysis.ok THEN analysis.phases ELSE <<>>]
  /\ UNCHANGED <<sessions, session_counter, orch, executor_shutdown, wf, tasks, env, probe,
                 logs, disk, consolidation, pool, sup, cb>>

\* one pass of `for phase in analysis["phases"]` up to the while loop: the
\* phase is sorted, its first max_parallel tasks are a batch, appended `if
\* batch`, and the rest is `remaining`
distribute_phase ==
  /\ plan.pc = "distributing"
  /\ plan.remaining = <<>>
  /\ plan.phases_left # <<>>
  /\ \E phase_tasks \in sorted_by_priority(plan.tasks, Head(plan.phases_left)) :
       LET batch == slice_to(phase_tasks, plan.max_parallel)
       IN plan' = [plan EXCEPT
                     !.phases_left = Tail(@),
                     !.batches = IF batch # <<>> THEN Append(@, batch) ELSE @,
                     !.remaining = slice_from(phase_tasks, plan.max_parallel)]
  /\ UNCHANGED <<sessions, session_counter, orch, executor_shutdown, wf, tasks, env, probe,
                 logs, disk, consolidation, pool, sup, cb>>

\* one pass of `while remaining`: remaining[:max_parallel] is appended as a
\* batch, whatever it holds, and remaining[max_parallel:] is left.  Of the
\* batches only the first Len(tasks) + MaxSpareBatches are kept; `passes`
\* tells a pass from the one before it
distribute_overflow ==
  /\ plan.pc = "distributing"
  /\ plan.remaining # <<>>
  /\ plan' = [plan EXCEPT
                !.batches = IF Len(@) < Len(plan.tasks) + MaxSpareBatches
                            THEN Append(@, slice_to(plan.remaining, plan.max_parallel))
                            ELSE @,
                !.remaining = slice_from(plan.remaining, plan.max_parallel),
                !.passes = 1 - @]
  /\ UNCHANGED <<sessions, session_counter, orch, executor_shutdown, wf, tasks, env, probe,
                 logs, disk, consolidation, pool, sup, cb>>

\* the for loop is over: return batches
distribute_return ==
  /\ plan.pc = "distributing"
  /\ plan.remaining = <<>>
  /\ plan.phases_left = <<>>
  /\ plan' = [plan EXCEPT !.pc = "returned"]
  /\ UNCHANGED <<sessions, session_counter, orch, executor_shutdown, wf, tasks, env, probe,
                 logs, disk, consolidation, pool, sup, cb>>

DistributeNext ==
  \/ distribute_begin
  \/ distribute_phase
  \/ distribute_overflow
  \/ distribute_return

DistributeSpec == Init /\ [][DistributeNext]_vars

\* a call that has begun runs on: every step of its loops that can be taken
\* is taken
FairDistributeSpec ==
  DistributeSpec /\ WF_vars(distribute_phase \/ distribute_overflow \/ distribute_return)

\* ------------------------------------------- _execute_task on executor threads
\* the names the tasks of a parallel workflow carry; their component is the
\* default "general"
PoolTaskNames == {"api", "db"}

\* the executor's worker threads
PoolThreads == 1..max_workers

\* a worker thread of the executor with no task
FreeThread == [pc |-> "free", task |-> 0, counter |-> 0, session_id |-> <<>>, session |-> 0]

\* f"ccc-{task_name}-{component}-{self.session_counter:03d}"
session_id_of(task_name, component, counter) == <<"ccc", task_name, component, counter>>

\* SessionOrchestrator.execute_workflow(name, tasks, parallel=True): every
\* task is submitted to the executor; sessions are told apart by the task
\* they were built for
pool_execute_workflow ==
  /\ pool.pc = "idle"
  /\ \E n \in 1..MaxPoolTasks : \E names \in [1..n -> PoolTaskNames] :
       pool' = [pc |-> "running",
                defs |-> names,
                next |-> 1,                             \* the first task no thread has taken
                threads |-> [t \in PoolThreads |-> FreeThread],
                sessions |-> <<>>,                      \* self.sessions: session id -> session
                alive |-> {},                           \* the sessions whose worker process runs
                returned |-> [k \in 1..n |-> <<>>]]     \* what create_session returned, per task
  /\ UNCHANGED <<sessions, session_counter, orch, executor_shutdown, wf, tasks, env, probe,
                 plan, logs, disk, consolidation, sup, cb>>

\* a free worker thread (the first of them: they are alike) takes the next
\* submitted task: _execute_task(task) up to the call of create_session
pool_take(t) ==
  /\ pool.pc = "running"
  /\ pool.threads[t].pc = "free"
  /\ \A u \in 1..(t - 1) : pool.threads[u].pc # "free"
  /\ pool.next <= Len(pool.defs)
  /\ pool' = [pool EXCEPT !.threads[t] = [FreeThread EXCEPT !.pc = "load", !.task = pool.next],
                          !.next = @ + 1]
  /\ UNCHANGED <<sessions, session_counter, orch, executor_shutdown, wf, tasks, env, probe,
                 plan, logs, disk, consolidation, sup, cb>>

\* create_session, `self.session_counter += 1`: the read
pool_counter_load(t) ==
  /\ pool.pc = "running"
  /\ pool.threads[t].pc = "load"
  /\ pool' = [pool EXCEPT !.threads[t].counter = session_counter, !.threads[t].pc = "store"]
  /\ UNCHANGED <<sessions, session_counter, orch, executor_shutdown, wf, tasks, env, probe,
                 plan, logs, disk, consolidation, sup, cb>>

\* create_session, `self.session_counter += 1`: the write
pool_counter_store(t) ==
  /\ pool.pc = "running"
  /\ pool.threads[t].pc = "store"
  /\ session_counter' = pool.threads[t].counter + 1
  /\ pool' = [pool EXCEPT !.threads[t].pc = "format"]
  /\ UNCHANGED <<sessions, orch, executor_shutdown, wf, tasks, env, probe,
                 plan, logs, disk, consolidation, sup, cb>>

\* create_session, `session_id = f"ccc-...-{self.session_counter:03d}"`: the
\* counter is read again
pool_format_id(t) ==
  /\ pool.pc = "running"
  /\ pool.threads[t].pc = "format"
  /\ pool' = [pool EXCEPT
       !.threads[t].session_id =
          session_id_of(pool.defs[pool.threads[t].task], "general", session_counter),
       !.threads[t].pc = "register"]
  /\ UNCHANGED <<sessions, session_counter, orch, executor_shutdown, wf, tasks, env, probe,
                 plan, logs, disk, consolidation, sup, cb>>

\* create_session from "Create session" to its return: the new ClaudeSession
\* is stored under its id, whatever the dict held there, and started (Popen
\* succeeds or throws); the id is returned
pool_register(t, ok) ==
  /\ pool.pc = "running"
  /\ pool.threads[t].pc = "register"
  /\ LET th == pool.threads[t]
     IN pool' = [pool EXCEPT
          !.sessions = (th.session_id :> th.task) @@ @,
          !.alive = IF ok THEN @ \cup {th.task} ELSE @,
          !.returned[th.task] = th.session_id,
          !.threads[t].pc = "lookup"]
  /\ UNCHANGED <<sessions, session_counter, orch, executor_shutdown, wf, tasks, env, probe,
                 plan, logs, disk, consolidation, sup, cb>>

\* _execute_task, `session = self.sessions[session_id]`
pool_lookup(t) ==
  /\ pool.pc = "running"
  /\ pool.threads[t].pc = "lookup"
  /\ pool' = [pool EXCEPT !.threads[t].session = pool.sessions[pool.threads[t].session_id],
                          !.threads[t].pc = "wait"]
  /\ UNCHANGED <<sessions, session_counter, orch, executor_shutdown, wf, tasks, env, probe,
                 plan, logs, disk, consolidation, sup, cb>>

\* _execute_task from session.wait_for_completion() to its return: the wait
\* ends when the session that was looked up has no live process, and the
\* thread is free again
pool_wait_return(t) ==
  /\ pool.pc = "running"
  /\ pool.threads[t].pc = "wait"
  /\ pool.threads[t].session \notin pool.alive
  /\ pool' = [pool EXCEPT !.threads[t] = FreeThread]
  /\ UNCHANGED <<sessions, session_counter, orch, executor_shutdown, wf, tasks, env, probe,
                 plan, logs, disk, consolidation, sup, cb>>

\* the worker process of the session built for task k exits
pool_process_exit(k) ==
  /\ pool.pc = "running"
  /\ k \in pool.alive
  /\ pool' = [pool EXCEPT !.alive = @ \ {k}]
  /\ UNCHANGED <<sessions, session_counter, orch, executor_shutdown, wf, tasks, env, probe,
                 plan, logs, disk, consolidation, sup, cb>>

\* a parallel workflow, its tasks run by the executor's threads
PoolNext ==
  \/ pool_execute_workflow
  \/ \E t \in PoolThreads : pool_take(t)
  \/ \E t \in PoolThreads : pool_counter_load(t)
  \/ \E t \in PoolThreads : pool_counter_store(t)
  \/ \E t \in PoolThreads : pool_format_id(t)
  \/ \E t \in PoolThreads, ok \in BOOLEAN : pool_register(t, ok)
  \/ \E t \in PoolThreads : pool_lookup(t)
  \/ \E t \in PoolThreads : pool_wait_return(t)
  \/ \E k \in 1..MaxPoolTasks : pool_process_exit(k)

PoolSpec == Init /\ [][PoolNext]_vars

\* ------------------------------------ one session, statement by statement
\* the threads that write the session's state: its supervision thread, and a
\* thread that calls terminate() from outside
SupervisionThreads == {"monitor", "caller"}

\* files the worker may write into the workspace
SupervisedFiles == {"main.py", "notes.log"}

\* `not file.name.endswith('.log')`
non_log(files) == files \ {"notes.log"}

\* _monitor_session, `elapsed > self.timeout_seconds` never true
timeout_reached_never(polls) == FALSE

\* _monitor_session, `elapsed > self.timeout_seconds`: with a worker that
\* goes on running, true from some poll of the loop on
timeout_reached(polls) == polls >= MaxPolls

\* the statement a thread goes to next: through terminate() (t_kill to
\* t_notify, by a caller, or by the supervision thread on timeout, which then
\* breaks out of its loop) and through the end of _monitor_session (mark to
\* notify)
next_statement(who, pc) ==
  CASE pc = "t_kill" -> "t_status"
    [] pc = "t_status" -> "t_snapshot"
    [] pc = "t_snapshot" -> "t_write"
    [] pc = "t_write" -> "t_notify"
    [] pc = "t_notify" -> IF who = "monitor" THEN "mark" ELSE "done"
    [] pc = "mark" -> "snapshot"
    [] pc = "snapshot" -> "write"
    [] pc = "write" -> "notify"
    [] pc = "notify" -> "done"

\* create_session has returned for one session whose start() succeeded: the
\* worker runs, the session is RUNNING and saved, its supervision thread is
\* at the top of its loop
supervise_begin ==
  /\ sup.pc = "idle"
  /\ sessions = <<>>
  /\ LET st == launched(start_begin(NewSession("api", FALSE), TaskPrompt("api")), TRUE)
         r == on_session_state_change([orch EXCEPT !.active_sessions = Append(@, 1)], 1, st)
     IN /\ sessions' = <<r.sess>>
        /\ orch' = r.orch
        /\ sup' = [pc |-> "running",
                   thread |-> [monitor |-> [pc |-> "loop", snapshot |-> <<>>],
                               caller |-> [pc |-> "idle", snapshot |-> <<>>]],
                   file |-> <<to_dict(st)>>,   \* session_state.json
                   polls |-> 0,                \* iterations of the loop so far
                   workspace |-> {},           \* the files in the workspace
                   files_created |-> {},       \* state.files_created
                   at_exit |-> {}]             \* the workspace when the worker exited
  /\ session_counter' = session_counter + 1
  /\ UNCHANGED <<executor_shutdown, wf, tasks, env, probe, plan, logs, disk, consolidation,
                 pool, cb>>

\* the worker writes a file into its workspace
worker_write(f) ==
  /\ sup.pc = "running"
  /\ sessions[1].process = "alive"
  /\ f \notin sup.workspace
  /\ sup' = [sup EXCEPT !.workspace = @ \cup {f}]
  /\ UNCHANGED <<sessions, session_counter, orch, executor_shutdown, wf, tasks, env, probe,
                 plan, logs, disk, consolidation, pool, cb>>

\* the worker exits by itself
worker_exit(rc) ==
  /\ sup.pc = "running"
  /\ sessions[1].process = "alive"
  /\ sessions' = [sessions EXCEPT ![1].process = "exited", ![1].returncode = rc]
  /\ sup' = [sup EXCEPT !.at_exit = sup.workspace]
  /\ UNCHANGED <<session_counter, orch, executor_shutdown, wf, tasks, env, probe,
                 plan, logs, disk, consolidation, pool, cb>>

\* _monitor_session, an iteration of the loop that finds the worker running
\* and the timeout not reached: _scan_workspace_changes, state.save(), sleep
monitor_iteration ==
  /\ sup.pc = "running"
  /\ sup.thread.monitor.pc = "loop"
  /\ sessions[1].process = "alive"
  /\ ~timeout_reached(sup.polls)
  /\ sup.polls < MaxPolls
  /\ sup' = [sup EXCEPT !.polls = @ + 1,
                        !.files_created = @ \cup non_log(sup.workspace),
                        !.file = <<to_dict(sessions[1])>>]
  /\ UNCHANGED <<sessions, session_counter, orch, executor_shutdown, wf, tasks, env, probe,
                 plan, logs, disk, consolidation, pool, cb>>

\* _monitor_session, an iteration that finds the worker running and the
\* timeout reached: it enters terminate()
monitor_timeout_begin ==
  /\ sup.pc = "running"
  /\ sup.thread.monitor.pc = "loop"
  /\ sessions[1].process = "alive"
  /\ timeout_reached(sup.polls)
  /\ sessions' = [sessions EXCEPT ![1].timed_out = TRUE]
  /\ sup' = [sup EXCEPT !.thread.monitor.pc = "t_kill"]
  /\ UNCHANGED <<session_counter, orch, executor_shutdown, wf, tasks, env, probe,
                 plan, logs, disk, consolidation, pool, cb>>

\* _monitor_session, the loop condition finds the worker gone: the loop ends
monitor_loop_end ==
  /\ sup.pc = "running"
  /\ sup.thread.monitor.pc = "loop"
  /\ sessions[1].process # "alive"
  /\ sup' = [sup EXCEPT !.thread.monitor.pc = "mark"]
  /\ UNCHANGED <<sessions, session_counter, orch, executor_shutdown, wf, tasks, env, probe,
                 plan, logs, disk, consolidation, pool, cb>>

\* terminate() is called on the session from another thread; self.process
\* is set
caller_terminate ==
  /\ sup.pc = "running"
  /\ sup.thread.caller.pc = "idle"
  /\ sup' = [sup EXCEPT !.thread.caller.pc = "t_kill"]
  /\ UNCHANGED <<sessions, session_counter, orch, executor_shutdown, wf, tasks, env, probe,
                 plan, logs, disk, consolidation, pool, cb>>

\* terminate(), process.terminate() and process.wait(timeout=5): a worker
\* that runs is stopped and leaves exit code rc, one that has exited keeps
\* its own
terminate_kill(who, rc) ==
  /\ sup.pc = "running"
  /\ sup.thread[who].pc = "t_kill"
  /\ sessions' = [sessions EXCEPT
       ![1].returncode = IF sessions[1].process = "alive" THEN rc ELSE @,
       ![1].process = "exited"]
  /\ sup' = [sup EXCEPT
       !.thread[who].pc = next_statement(who, "t_kill"),
       !.at_exit = IF sessions[1].process = "alive" THEN sup.workspace ELSE @]
  /\ UNCHANGED <<session_counter, orch, executor_shutdown, wf, tasks, env, probe,
                 plan, logs, disk, consolidation, pool, cb>>

\* terminate(), `self.state.status = SessionStatus.TERMINATED`
terminate_status(who) ==
  /\ sup.pc = "running"
  /\ sup.thread[who].pc = "t_status"
  /\ sessions' = [sessions EXCEPT ![1].status = "terminated", ![1].terminate_called = TRUE]
  /\ sup' = [sup EXCEPT !.thread[who].pc = next_statement(who, "t_status")]
  /\ UNCHANGED <<session_counter, orch, executor_shutdown, wf, tasks, env, probe,
                 plan, logs, disk, consolidation, pool, cb>>

\* the end of _monitor_session: exit_code, mark_completed, last_error and
\* error_count
monitor_mark ==
  /\ sup.pc = "running"
  /\ sup.thread.monitor.pc = "mark"
  /\ sessions' = [sessions EXCEPT ![1] = monitor_result(
                    [@ EXCEPT !.monitors = 0], sessions[1].returncode)]
  /\ sup' = [sup EXCEPT !.thread.monitor.pc = next_statement("monitor", "mark")]
  /\ UNCHANGED <<session_counter, orch, executor_shutdown, wf, tasks, env, probe,
                 plan, logs, disk, consolidation, pool, cb>>

\* SessionState.save, `self.to_dict()`: the dict of the state as it is now
save_snapshot(who) ==
  /\ sup.pc = "running"
  /\ sup.thread[who].pc \in {"t_snapshot", "snapshot"}
  /\ sup' = [sup EXCEPT !.thread[who].snapshot = <<to_dict(sessions[1])>>,
                        !.thread[who].pc = next_statement(who, @)]
  /\ UNCHANGED <<sessions, session_counter, orch, executor_shutdown, wf, tasks, env, probe,
                 plan, logs, disk, consolidation, pool, cb>>

\* SessionState.save, json.dump into session_state.json: the file holds the
\* dict taken before
save_write(who) ==
  /\ sup.pc = "running"
  /\ sup.thread[who].pc \in {"t_write", "write"}
  /\ sup' = [sup EXCEPT !.file = sup.thread[who].snapshot,
                        !.thread[who].pc = next_statement(who, @)]
  /\ UNCHANGED <<sessions, session_counter, orch, executor_shutdown, wf, tasks, env, probe,
                 plan, logs, disk, consolidation, pool, cb>>

\* _notify_state_change: the orchestrator's callback on the state as it is now
notify_state_change(who) ==
  /\ sup.pc = "running"
  /\ sup.thread[who].pc \in {"t_notify", "notify"}
  /\ Notify(1, sessions[1])
  /\ sup' = [sup EXCEPT !.thread[who].pc = next_statement(who, @)]
  /\ UNCHANGED <<session_counter, executor_shutdown, wf, tasks, env, probe,
                 plan, logs, disk, consolidation, pool, cb>>

\* the steps of the supervision thread
MonitorStep ==
  \/ monitor_iteration
  \/ monitor_timeout_begin
  \/ monitor_loop_end
  \/ \E rc \in TerminateCodes : terminate_kill("monitor", rc)
  \/ terminate_status("monitor")
  \/ monitor_mark
  \/ save_snapshot("monitor")
  \/ save_write("monitor")
  \/ notify_state_change("monitor")

\* the steps of a thread that calls terminate()
CallerStep ==
  \/ caller_terminate
  \/ \E rc \in TerminateCodes : terminate_kill("caller", rc)
  \/ terminate_status("caller")
  \/ save_snapshot("caller")
  \/ save_write("caller")
  \/ notify_state_change("caller")

SuperviseNext ==
  \/ supervise_begin
  \/ \E f \in SupervisedFiles : worker_write(f)
  \/ \E rc \in ExitCodes : worker_exit(rc)
  \/ MonitorStep
  \/ CallerStep

SuperviseSpec == Init /\ [][SuperviseNext]_vars

\* the supervision thread is scheduled again and again
FairSuperviseSpec == SuperviseSpec /\ WF_vars(MonitorStep)

\* ------------------------------------- the orchestrator's callbacks, by thread
\* the threads of one session that deliver output lines: the readers of its
\* stdout and of its stderr
ReaderThreads == {"stdout", "stderr"}

\* the lines a worker prints, by what _on_session_output looks for in them
OutputLines == {"an error occurred", "created main.py", "working"}

\* `"error" in line.lower()`
has_error(line) == line = "an error occurred"

\* `"created" in line.lower() or "wrote" in line.lower()`
has_created(line) == line = "created main.py"

\* the state a supervision thread hands to the callback at its end: COMPLETED
completed_state ==
  mark_completed(launched(start_begin(NewSession("api", FALSE), TaskPrompt("api")), TRUE), TRUE)

\* a session runs: its two readers and its supervision thread are outside the
\* callbacks, the orchestrator's error_count is 0
callbacks_begin ==
  /\ cb.pc = "idle"
  /\ cb' = [pc |-> "running",
            error_count |-> 0,     \* orchestrator.state.error_count
            errors_seen |-> 0,     \* lines with "error" the readers have delivered
            reader |-> [t \in ReaderThreads |->
                          [pc |-> "outside", line |-> "working", error_count |-> 0, lines |-> 0]],
            monitor |-> "outside"]
  /\ UNCHANGED <<sessions, session_counter, orch, executor_shutdown, wf, tasks, env, probe,
                 plan, logs, disk, consolidation, pool, sup>>

\* _read_output, `self.output_callback(line)`: a reader enters
\* _on_session_output with a line
output_enter(t, line) ==
  /\ cb.pc = "running"
  /\ cb.reader[t].pc = "outside"
  /\ cb.reader[t].lines < MaxLines
  /\ cb' = [cb EXCEPT !.reader[t].pc = "test_error",
                      !.reader[t].line = line,
                      !.reader[t].lines = @ + 1]
  /\ UNCHANGED <<sessions, session_counter, orch, executor_shutdown, wf, tasks, env, probe,
                 plan, logs, disk, consolidation, pool, sup>>

\* _on_session_output, `if "error" in line.lower()`, and the read of
\* `self.state.error_count += 1`
output_error_load(t) ==
  /\ cb.pc = "running"
  /\ cb.reader[t].pc = "test_error"
  /\ cb' = IF has_error(cb.reader[t].line)
           THEN [cb EXCEPT !.reader[t].error_count = cb.error_count,
                           !.reader[t].pc = "store",
                           !.errors_seen = @ + 1]
           ELSE [cb EXCEPT !.reader[t].pc = "test_created"]
  /\ UNCHANGED <<sessions, session_counter, orch, executor_shutdown, wf, tasks, env, probe,
                 plan, logs, disk, consolidation, pool, sup>>

\* _on_session_output, `self.state.error_count += 1`: the write
output_error_store(t) ==
  /\ cb.pc = "running"
  /\ cb.reader[t].pc = "store"
  /\ cb' = [cb EXCEPT !.error_count = cb.reader[t].error_count + 1,
                      !.reader[t].pc = "test_created"]
  /\ UNCHANGED <<sessions, session_counter, orch, executor_shutdown, wf, tasks, env, probe,
                 plan, logs, disk, consolidation, pool, sup>>

\* _on_session_output, `if "created" in line.lower() ...: self._notify(...)`,
\* and the return
output_created_return(t) ==
  /\ cb.pc = "running"
  /\ cb.reader[t].pc = "test_created"
  /\ logs' = IF has_created(cb.reader[t].line)
             THEN [logs EXCEPT !.notifications = Append(@, Len(@) + 1)]
             ELSE logs
  /\ cb' = [cb EXCEPT !.reader[t].pc = "outside"]
  /\ UNCHANGED <<sessions, session_counter, orch, executor_shutdown, wf, tasks, env, probe,
                 plan, disk, consolidation, pool, sup>>

\* _on_session_state_change entered by the supervision thread: its _notify
state_change_notify ==
  /\ cb.pc = "running"
  /\ cb.monitor = "outside"
  /\ logs' = [logs EXCEPT !.notifications = Append(@, Len(@) + 1)]
  /\ cb' = [cb EXCEPT !.monitor = "session_states"]
  /\ UNCHANGED <<sessions, session_counter, orch, executor_shutdown, wf, tasks, env, probe,
                 plan, disk, consolidation, pool, sup>>

\* _on_session_state_change, `self.state.session_states[...] = state.to_dict()`
state_change_record ==
  /\ cb.pc = "running"
  /\ cb.monitor = "session_states"
  /\ orch' = [orch EXCEPT !.session_states = (1 :> to_dict(completed_state)) @@ @]
  /\ cb' = [cb EXCEPT !.monitor = "completion"]
  /\ UNCHANGED <<sessions, session_counter, executor_shutdown, wf, tasks, env, probe,
                 plan, logs, disk, consolidation, pool, sup>>

\* _on_session_state_change, _handle_session_completion with its _notify,
\* and the return
state_change_completion ==
  /\ cb.pc = "running"
  /\ cb.monitor = "completion"
  /\ orch' = handle_session_completion(orch, 1, completed_state)
  /\ logs' = [logs EXCEPT !.notifications = Append(@, Len(@) + 1)]
  /\ cb' = [cb EXCEPT !.monitor = "returned"]
  /\ UNCHANGED <<sessions, session_counter, executor_shutdown, wf, tasks, env, probe,
                 plan, disk, consolidation, pool, sup>>

\* the callbacks of one session, delivered by its threads
CallbackNext ==
  \/ callbacks_begin
  \/ \E t \in ReaderThreads, line \in OutputLines : output_enter(t, line)
  \/ \E t \in ReaderThreads : output_error_load(t)
  \/ \E t \in ReaderThreads : output_error_store(t)
  \/ \E t \in ReaderThreads : output_created_return(t)
  \/ state_change_notify
  \/ state_change_record
  \/ state_change_completion

CallbackSpec == Init /\ [][CallbackNext]_vars

\* =================================================================== claims
\* position of a status in PENDING -> STARTING -> RUNNING -> terminal
Rank(status) ==
  CASE status = "pending" -> 0
    [] status = "starting" -> 1
    [] status = "running" -> 2
    [] OTHER -> 3

\* C1: a session's status never moves backward except FAILED -> STARTING; in
\* particular start() on a COMPLETED, RUNNING or TERMINATED session leaves
\* the status unchanged.
C1_NoBackwardTransition ==
  [][\A sid \in Ids :
       Rank(sessions'[sid].status) < Rank(sessions[sid].status)
         => sessions[sid].status = "failed" /\ sessions'[sid].status = "starting"]_vars

\* C2: once COMPLETED or TERMINATED the status never changes again, and
\* FAILED changes only to STARTING.
C2_TerminalIsFinal ==
  [][\A sid \in Ids :
       /\ sessions[sid].status \in {"completed", "terminated"}
            => sessions'[sid].status = sessions[sid].status
       /\ sessions[sid].status = "failed"
            => sessions'[sid].status \in {"failed", "starting"}]_vars

\* C3: when the supervision thread records the exit of a worker on which
\* terminate() was never called, the status becomes COMPLETED iff the exit
\* code is zero; otherwise FAILED, last_error names the exit code and
\* error_count grows by exactly 1.
C3_ExitDecidesStatus ==
  [][\A sid \in Ids :
       (sessions'[sid].monitors < sessions[sid].monitors /\ ~sessions[sid].terminate_called)
         => LET rc == sessions[sid].returncode
                new == sessions'[sid]
            IN /\ new.status = "completed" <=> rc = "0"
               /\ rc = "0" => new.error_count = sessions[sid].error_count
               /\ rc # "0" => /\ new.status = "failed"
                              /\ new.last_error = <<"Process exited with code", rc>>
                              /\ new.error_count = sessions[sid].error_count + 1]_vars

\* C3 witness: a worker that exited with code 1 by itself has been recorded
C3_Witness ==
  \E sid \in Ids :
    /\ sessions[sid].status = "failed"
    /\ sessions[sid].returncode = "1"
    /\ sessions[sid].monitors = 0
    /\ ~sessions[sid].terminate_called
    /\ sessions[sid].error_count = 1
    /\ sessions[sid].last_error = <<"Process exited with code", "1">>

\* C4: a session terminated for exceeding its timeout never ends COMPLETED.
C4_TimeoutNeverCompleted ==
  \A sid \in Ids : sessions[sid].timed_out => sessions[sid].status # "completed"

\* C5: once a FAILED state for which should_retry() holds has been delivered
\* to the orchestrator, the session has been re-armed: retry_count is one
\* more than in the delivered state and the new prompt embeds the prior error.
C5_RetryScheduled ==
  \A sid \in Ids :
    (sid \in DOMAIN orch.session_states /\ should_retry(
        [status |-> orch.session_states[sid].status,
         retry_count |-> orch.session_states[sid].retry_count,
         max_retries |-> sessions[sid].max_retries,
         error_count |-> orch.session_states[sid].error_count]))
      => /\ sessions[sid].retry_count = orch.session_states[sid].retry_count + 1
         /\ Len(sessions[sid].task_description) = 4
         /\ sessions[sid].task_description[1] = "retry"
         /\ sessions[sid].task_description[3] = orch.session_states[sid].last_error

TaskSucceeded(i) ==
  LET name == wf.defs[i].name
  IN /\ name \in DOMAIN wf.results
     /\ "success" \in DOMAIN wf.results[name]
     /\ wf.results[name].success

\* C7: the success flag of a finished execute_workflow is true iff every task
\* succeeded, in parallel and in sequential mode.
C7_SuccessIffAllSucceeded ==
  wf.pc = "done" => (wf.success <=> \A i \in 1..Len(wf.defs) : TaskSucceeded(i))

RunningSessions ==
  {i \in Ids : sessions[i].process = "alive" /\ sessions[i].status \in {"starting", "running"}}

\* C11: at every moment the number of sessions running concurrently is at
\* most max_parallel_sessions.
C11_PoolBounded ==
  Cardinality(RunningSessions) <= max_parallel_sessions

C13_WaitReturnsCompleted ==
  \A t \in Tasks : tasks[t].state = "finished" =>
    LET st == sessions[tasks[t].session]
    IN /\ st.process # "alive"
       /\ (st.process = "exited" /\ st.returncode = "0" /\ ~st.terminate_called)
            => tasks[t].result.success

\* C14: once a terminate() call on a session has returned, whatever the
\* session's status was and whether or not its worker was ever launched, the
\* session's status is TERMINATED and so is the snapshot of it that the call
\* saved and handed to the state callback.
C14_TerminateAlwaysTerminates ==
  [][\A sid \in Ids :
       (env'.terminates > env.terminates
          /\ sessions'[sid].terminate_called /\ ~sessions[sid].terminate_called)
         => /\ sessions'[sid].status = "terminated"
            /\ sid \in DOMAIN orch'.session_states
            /\ orch'.session_states[sid].status = "terminated"]_vars

\* a session whose worker has exited and that terminate() has left TERMINATED
AlreadyTerminated(sid) ==
  /\ sessions[sid].process = "exited"
  /\ sessions[sid].terminate_called
  /\ sessions[sid].status = "terminated"

C16_SessionSetsDisjoint ==
  LET active == Range(orch.active_sessions)
      completed == Range(orch.completed_sessions)
      failed == Range(orch.failed_sessions)
  IN /\ active \cap completed = {}
     /\ active \cap failed = {}
     /\ completed \cap failed = {}
     /\ (active \cup completed \cup failed) \subseteq Ids

\* every dependency of the list names a task of the list
Closed(defs) == \A d \in Range(defs) : d.dependencies \subseteq NamesOf(defs)

\* the names reachable from the names X along dependencies, X included
RECURSIVE DependencyClosure(_, _)
DependencyClosure(defs, X) ==
  LET Y == X \cup UNION {DepsOf(defs, n) : n \in X}
  IN IF Y = X THEN X ELSE DependencyClosure(defs, Y)

\* the tasks that lie on a dependency cycle
OnCycle(defs) ==
  {n \in NamesOf(defs) : n \in DependencyClosure(defs, DepsOf(defs, n))}

\* the names placed in the phases before phase k
EarlierPhases(phases, k) == UNION {phases[j] : j \in 1..(k - 1)}

\* C17: for every acyclic task list, analyze_dependencies returns phases in
\* which every task appears exactly once and every dependency of a task lies
\* in a strictly earlier phase.
C17_PhasesPartitionAndOrder ==
  (plan.pc = "analyzed" /\ Closed(plan.tasks) /\ OnCycle(plan.tasks) = {}) =>
    /\ plan.analysis.ok
    /\ LET phases == plan.analysis.phases
       IN /\ \A n \in NamesOf(plan.tasks) :
               Cardinality({k \in DOMAIN phases : n \in phases[k]}) = 1
          /\ \A k \in DOMAIN phases :
               /\ phases[k] \subseteq NamesOf(plan.tasks)
               /\ \A n \in phases[k] :
                    DepsOf(plan.tasks, n) \subseteq EarlierPhases(phases, k)

\* C18: every phase analyze_dependencies returns is maximal: phase k holds
\* every task not placed before phase k whose dependencies all are.
C18_PhasesMaximal ==
  (plan.pc = "analyzed" /\ plan.analysis.ok) =>
    LET phases == plan.analysis.phases
    IN \A k \in DOMAIN phases :
         \A n \in NamesOf(plan.tasks) \ EarlierPhases(phases, k) :
           DepsOf(plan.tasks, n) \subseteq EarlierPhases(phases, k) => n \in phases[k]

\* C18 witness: an analysis with two tasks in its first phase and a task
\* that waits for both in its second
C18_Witness ==
  /\ plan.pc = "analyzed" /\ plan.analysis.ok
  /\ Len(plan.analysis.phases) = 2
  /\ Cardinality(plan.analysis.phases[1]) = 2
  /\ \E n \in plan.analysis.phases[2] : DepsOf(plan.tasks, n) = plan.analysis.phases[1]

\* C19: for every task list with a dependency cycle (a self-dependency
\* included), analyze_dependencies raises the circular-dependency error, the
\* error names a task of a cycle, and no phase list is returned.
C19_CycleRejected ==
  (plan.pc = "analyzed" /\ OnCycle(plan.tasks) # {}) =>
    /\ ~plan.analysis.ok
    /\ "phases" \notin DOMAIN plan.analysis
    /\ plan.analysis.error[1] = "Circular dependency detected in tasks"
    /\ plan.analysis.error[2] \cap OnCycle(plan.tasks) # {}

\* C19 witness: a list in which one task could be placed and another depends
\* on itself has been rejected
C19_Witness ==
  /\ plan.pc = "analyzed" /\ ~plan.analysis.ok
  /\ \E n \in NamesOf(plan.tasks) : DepsOf(plan.tasks, n) = {}
  /\ \E n \in NamesOf(plan.tasks) : DepsOf(plan.tasks, n) = {n}
  /\ plan.analysis.error[2] # NamesOf(plan.tasks)

\* a workflow type whose submission carries a configuration error: unknown,
\* with a dependency cycle, or with a dependency on a task it does not hold
ConfigurationError(workflow_type) ==
  \/ workflow_type \notin DOMAIN task_templates
  \/ /\ workflow_type \in DOMAIN task_templates
     /\ \/ OnCycle(task_templates[workflow_type]) # {}
        \/ ~Closed(task_templates[workflow_type])

\* C20: a workflow submitted through OrchestratorHandler.execute_workflow
\* with a configuration error fails: the call raises, it leaves the session
\* table, the session counter and the orchestrator state as they were, and no
\* task of it is ever handed to the orchestrator.
C20_ConfigurationErrorsFailClosed ==
  [][/\ \A workflow_type \in WorkflowTypes :
          (wf.pc = "idle" /\ wf'.pc # "idle" /\ wf'.entry = "handler"
             /\ wf'.workflow_type = workflow_type /\ ConfigurationError(workflow_type))
            => /\ wf'.pc = "raised"
               /\ wf'.error # NoError
               /\ tasks' = <<>>
               /\ sessions' = sessions
               /\ session_counter' = session_counter
               /\ orch' = orch
     /\ (wf.entry = "handler" /\ ConfigurationError(wf.workflow_type))
          => wf' = wf /\ tasks' = tasks]_vars

\* C20 witness: a submission with a dependency cycle was refused while a
\* session created before it is running
C20_Witness ==
  /\ wf.pc = "raised" /\ wf.entry = "handler"
  /\ wf.workflow_type = "cyclic_app"
  /\ wf.error[1] = "Circular dependency detected in tasks"
  /\ \E sid \in Ids : sessions[sid].status = "running"

\* the sum of f over the set S
RECURSIVE SumOver(_, _)
SumOver(S, f) ==
  IF S = {} THEN 0 ELSE LET x == CHOOSE y \in S : TRUE IN f[x] + SumOver(S \ {x}, f)

\* estimated duration by task name
MinutesOf(defs) == [n \in NamesOf(defs) |-> DefOf(defs, n).estimated_minutes]

\* C21: for every non-empty acyclic task set, estimate_total_time returns
\* sequential = the sum of all estimated durations, parallel = the sum over
\* the computed phases of the largest estimated duration in the phase, and
\* saved = sequential - parallel.
C21_EstimateValues ==
  (plan.pc = "estimated" /\ plan.tasks # <<>>) =>
    LET defs == plan.tasks
        minutes == MinutesOf(defs)
        phases == analyze_dependencies(defs).phases
        largest == [k \in DOMAIN phases |->
                      CHOOSE m \in {minutes[n] : n \in phases[k]} :
                        \A n \in phases[k] : minutes[n] <= m]
        sequential == SumOver(NamesOf(defs), minutes)
        parallel == SumOver(DOMAIN phases, largest)
    IN /\ plan.estimate.ok
       /\ plan.estimate.sequential_execution_minutes = sequential
       /\ plan.estimate.parallel_execution_minutes = parallel
       /\ plan.estimate.time_saved_minutes = sequential - parallel

\* the scenario of two independent tasks and one that depends on both,
\* A(10), B(20), C(10, deps A and B): sequential 40, parallel 30, saved 10
C21_Witness ==
  /\ plan.pc = "estimated"
  /\ plan.tasks = <<[name |-> "t1", dependencies |-> {}, priority |-> 5, estimated_minutes |-> 10],
                    [name |-> "t2", dependencies |-> {}, priority |-> 5, estimated_minutes |-> 20],
                    [name |-> "t3", dependencies |-> {"t1", "t2"}, priority |-> 5,
                     estimated_minutes |-> 10]>>
  /\ plan.estimate.ok
  /\ plan.estimate.sequential_execution_minutes = 40
  /\ plan.estimate.parallel_execution_minutes = 30
  /\ plan.estimate.time_saved_minutes = 10

\* C22: for every non-empty acyclic task set with non-negative estimated
\* durations, the parallel time estimate is at most the sequential time
\* estimate, so the saved time is never negative.
C22_ParallelAtMostSequential ==
  (plan.pc = "estimated" /\ plan.tasks # <<>>) =>
    /\ plan.estimate.ok
    /\ plan.estimate.parallel_execution_minutes <= plan.estimate.sequential_execution_minutes
    /\ plan.estimate.time_saved_minutes >= 0

\* an estimate of several phases, one of them with two tasks of positive
\* duration, that saves time
C22_Witness ==
  /\ plan.pc = "estimated"
  /\ plan.estimate.ok
  /\ Len(analyze_dependencies(plan.tasks).phases) > 1
  /\ plan.estimate.time_saved_minutes > 0
  /\ plan.estimate.parallel_execution_minutes > 0

\* the dependency chains of a task list that end with `chains`' chains or
\* with a longer chain through them: each task directly depends on the one
\* before it
RECURSIVE ChainsFrom(_, _)
ChainsFrom(defs, chains) ==
  LET longer == UNION {{Append(c, n) : n \in {m \in NamesOf(defs) : c[Len(c)] \in DepsOf(defs, m)}} :
                         c \in chains}
  IN IF longer = {} THEN chains ELSE chains \cup ChainsFrom(defs, longer)

\* every dependency chain of a task list, from any task on
Chains(defs) == ChainsFrom(defs, {<<n>> : n \in NamesOf(defs)})

\* the cumulative estimated duration of a chain
ChainMinutes(defs, chain) ==
  Sum([i \in DOMAIN chain |-> DefOf(defs, chain[i]).estimated_minutes])

\* C23: for every non-empty acyclic task set with non-negative durations,
\* the critical path returned by analyze_dependencies is a dependency chain
\* (its first task has no dependencies and each later task directly depends
\* on the one before it) whose total estimated duration equals the maximum,
\* over all dependency chains of the task set, of the chain's cumulative
\* estimated duration.
C23_CriticalPathIsLongestChain ==
  (plan.pc = "analyzed" /\ plan.tasks # <<>>) =>
    /\ plan.analysis.ok
    /\ LET defs == plan.tasks
           path == plan.analysis.critical_path
       IN /\ path \in Chains(defs)
          /\ DepsOf(defs, path[1]) = {}
          /\ \A c \in Chains(defs) : ChainMinutes(defs, c) <= ChainMinutes(defs, path)

\* a critical path of two tasks or more that is strictly longer than another
\* chain from a task without dependencies to a task nothing depends on
C23_Witness ==
  /\ plan.pc = "analyzed"
  /\ plan.analysis.ok
  /\ Len(plan.analysis.critical_path) >= 2
  /\ \E c \in Chains(plan.tasks) :
       /\ DepsOf(plan.tasks, c[1]) = {}
       /\ \A m \in NamesOf(plan.tasks) : c[Len(c)] \notin DepsOf(plan.tasks, m)
       /\ Len(c) >= 2
       /\ ChainMinutes(plan.tasks, c) < ChainMinutes(plan.tasks, plan.analysis.critical_path)

\* C24: persist-then-load of a SessionState (to_dict/save followed by
\* load/from_dict) yields a state equal to the original in every observable
\* field, including status, error_count, last_error, retry_count and
\* max_retries.
C24_SessionStateRoundTrip ==
  probe.loaded # <<>> => probe.loaded[1] = session_state(probe.st)

\* C25: persist-then-load of an OrchestratorState (to_dict/save followed by
\* load/from_dict) yields a state equal to the original in every field,
\* including the session id lists, session_states and the notifications and
\* important_events logs, for every state reachable by any sequence of
\* orchestrator operations.
C25_OrchestratorStateRoundTrip ==
  (disk.loaded # <<>> /\ disk.file = <<orchestrator_to_dict(orchestrator_state)>>) =>
    disk.loaded[1] = orchestrator_state

\* C26: orchestrator state is recovered after a restart: an orchestrator
\* constructed on a workspace in which a previous orchestrator saved its
\* state starts with the saved active_sessions and completed_sessions (and
\* failed_sessions) rather than with empty ones.
C26_StateRecoveredAfterRestart ==
  [][(restart /\ disk.file # <<>>) =>
       /\ orch'.active_sessions = disk.file[1].active_sessions
       /\ orch'.completed_sessions = disk.file[1].completed_sessions
       /\ orch'.failed_sessions = disk.file[1].failed_sessions]_vars

\* C27: terminate_all stops the orchestrator from accepting new work: after
\* terminate_all has returned, no later create_session or execute_workflow
\* call on that orchestrator creates or starts a new session.
C27_TerminateAllStopsNewWork ==
  [][executor_shutdown => Len(sessions') <= Len(sessions)]_vars

\* the positions of a session_ids list that hold an id the orchestrator does
\* not know
UnknownPositions ==
  {i \in DOMAIN consolidation.session_ids :
     consolidation.session_ids[i] \notin DOMAIN consolidation.workspaces}

\* C28: consolidate_results never aborts on an unknown session id: for a
\* list mixing known and unknown ids in any order it returns normally,
\* appends exactly one error entry per unknown id given, and for every known
\* id copies every non-log file of that session's workspace to
\* output_dir/<session id>/<same relative path> and lists it in
\* files_collected.
C28_ConsolidateSkipsUnknown ==
  /\ consolidation.pc = "given" => ENABLED consolidate_results
  /\ consolidation.pc = "returned" =>
       /\ Len(consolidation.errors) = Cardinality(UnknownPositions)
       /\ \A i \in UnknownPositions :
            Cardinality({k \in DOMAIN consolidation.errors :
                           consolidation.errors[k][2] = consolidation.session_ids[i]})
              = Cardinality({j \in UnknownPositions :
                               consolidation.session_ids[j] = consolidation.session_ids[i]})
       /\ \A i \in DOMAIN consolidation.session_ids \ UnknownPositions :
            LET session_id == consolidation.session_ids[i]
            IN \A file \in consolidation.workspaces[session_id] :
                 file.name # "session.log" =>
                   LET dest == <<"output_dir", session_id>> \o file.dir \o <<file.name>>
                   IN /\ dest \in consolidation.output
                      /\ dest \in Range(consolidation.files_collected)

\* a list with an unknown id before and after a known one, whose session
\* holds a nested file and a log: two errors, the nested file copied
C28_Witness ==
  /\ consolidation.pc = "returned"
  /\ Len(consolidation.session_ids) = 3
  /\ consolidation.session_ids[1] \in UnknownIds
  /\ consolidation.session_ids[3] \in UnknownIds
  /\ consolidation.session_ids[2] \in DOMAIN consolidation.workspaces
  /\ consolidation.workspaces[consolidation.session_ids[2]] = Range(WorkspaceFilePool)
  /\ Len(consolidation.errors) = 2
  /\ <<"output_dir", consolidation.session_ids[2], "src", "app.py">>
       \in Range(consolidation.files_collected)
  /\ Len(consolidation.files_collected) = 2

\* C29: if launching the worker process throws, start() returns false, the
\* session's status is FAILED with last_error set to the launch error and
\* error_count incremented, the failure is delivered to the state callback,
\* and no supervision loop is started for that attempt.
C29_LaunchFailure ==
  [][\A sid \in Ids :
       launch(sid, FALSE) =>
         /\ sessions'[sid].start_returned = "False"
         /\ sessions'[sid].status = "failed"
         /\ sessions'[sid].last_error = <<"launch failed">>
         /\ sessions'[sid].error_count = sessions[sid].error_count + 1
         /\ sid \in DOMAIN orch'.session_states
         /\ orch'.session_states[sid].status = "failed"
         /\ orch'.session_states[sid].last_error = <<"launch failed">>
         /\ sessions'[sid].monitors = sessions[sid].monitors
         /\ sessions'[sid].process = sessions[sid].process]_vars

\* a start() has returned false on a session that never had a process: it is
\* FAILED with the launch error, one error counted, known to the orchestrator
\* as failed, and no supervision thread runs
C29_Witness ==
  \E sid \in Ids :
    /\ sessions[sid].start_returned = "False"
    /\ sessions[sid].status = "failed"
    /\ sessions[sid].last_error = <<"launch failed">>
    /\ sessions[sid].error_count = 1
    /\ sessions[sid].process = "none"
    /\ sessions[sid].monitors = 0
    /\ sid \in DOMAIN orch.session_states
    /\ orch.session_states[sid].status = "failed"

\* C30: a timeout failure is tagged distinctly from an ordinary runtime
\* failure: after a session is terminated because it exceeded its timeout,
\* its last_error identifies a timeout and is distinguishable from the
\* last_error recorded for a worker that exited on its own with a non-zero
\* exit code.
C30_TimeoutTaggedDistinctly ==
  [][\A sid \in Ids :
       (monitor_final(sid) /\ sessions[sid].broke > 0) =>
         /\ sessions'[sid].last_error # NoError
         /\ sessions'[sid].last_error[1] \notin {"Process exited with code", "launch failed"}]_vars

\* the batches of a distribute_tasks call that hold `name`, with multiplicity
BatchesOf(name) ==
  {<<k, i>> \in (DOMAIN plan.batches) \X (1..Len(plan.tasks)) :
     i \in DOMAIN plan.batches[k] /\ plan.batches[k][i] = name}

\* what C31 says of the batches returned
BatchesAsStated ==
  /\ \A n \in NamesOf(plan.tasks) : Cardinality(BatchesOf(n)) = 1
  /\ \A k \in DOMAIN plan.batches : Len(plan.batches[k]) <= plan.max_parallel
  /\ \A f \in DOMAIN plan.analysis.phases :
       \A a, b \in plan.analysis.phases[f] :
         DefOf(plan.tasks, a).priority > DefOf(plan.tasks, b).priority =>
           \A x \in BatchesOf(a), y \in BatchesOf(b) : x[1] <= y[1]

\* C31: for every acyclic task list and max_parallel >= 1, distribute_tasks
\* returns batches in which every task appears in exactly one batch, no
\* batch holds more than max_parallel tasks, and within the batches of one
\* phase tasks are ordered by descending priority: no task is in an earlier
\* batch than a task of the same phase with strictly higher priority.
C31_BatchesPartitionByPriority ==
  (plan.max_parallel >= 1 /\ plan.pc \in {"returned", "raised"}) =>
    (plan.pc = "returned" /\ BatchesAsStated)

\* C40: distribute_tasks terminates for every acyclic task list and every
\* integer max_parallel, including max_parallel = 0 and negative values, and
\* never returns an empty batch.
C40_DistributeTerminates ==
  /\ (plan.pc = "distributing") ~> (plan.pc = "returned")
  /\ [](plan.pc = "returned" => \A k \in DOMAIN plan.batches : plan.batches[k] # <<>>)

\* C35: the notifications and important_events logs are ring buffers: after
\* any sequence of add_notification and add_event calls the log held in the
\* orchestrator state has at most 100 notifications and 50 events, the most
\* recent ones.
C35_LogsAreRingBuffers ==
  /\ Len(orchestrator_state.notifications) <= notifications_kept
  /\ Len(orchestrator_state.important_events) <= events_kept

\* no thread is inside a statement sequence that writes the session's state
Quiescent ==
  /\ sup.pc = "running"
  /\ sup.thread.monitor.pc = "done"
  /\ sup.thread.caller.pc \in {"idle", "done"}

\* C32: within one session the persisted state file reflects the most recent
\* transition: under every interleaving of the supervision loop with
\* terminate() calls from other threads no write of an older state
\* overwrites a newer one, so once the session is quiescent the snapshot's
\* status equals the in-memory status.
C32_StateFileIsLatest ==
  Quiescent => sup.file[1].status = sessions[1].status

\* how often the session is listed in a list of session ids
Listed(ids) == Cardinality({i \in DOMAIN ids : ids[i] = 1})

\* C36: each session whose worker process exits is recorded exactly once in
\* exactly one of completed_sessions (exit code 0) or failed_sessions
\* (otherwise), under every interleaving of the supervision loop with
\* terminate() calls.
C36_ExitRecordedOnce ==
  Quiescent =>
    IF sessions[1].returncode = "0"
    THEN Listed(orch.completed_sessions) = 1 /\ Listed(orch.failed_sessions) = 0
    ELSE Listed(orch.completed_sessions) = 0 /\ Listed(orch.failed_sessions) = 1

\* C38: when a session reaches COMPLETED or FAILED its files_created holds
\* every non-log file present in its workspace at the moment the worker
\* exited, including files written after the supervision loop's last scan.
C38_FilesCreatedComplete ==
  (sup.pc = "running" /\ sessions[1].status \in {"completed", "failed"}) =>
    non_log(sup.at_exit) \subseteq sup.files_created

\* the supervision thread has ended and the worker is gone
SupervisionEnded ==
  IF sup.pc = "running"
  THEN sup.thread.monitor.pc = "done" /\ sessions[1].process = "exited"
  ELSE FALSE

InsideCallback ==
  {t \in ReaderThreads : cb.reader[t].pc # "outside"}
    \cup (IF cb.monitor \in {"session_states", "completion"} THEN {"monitor"} ELSE {})

\* every error line delivered has been counted once no thread is inside
NoLostUpdate ==
  InsideCallback = {} => cb.error_count = cb.errors_seen

\* C33: delivery of session callbacks to the orchestrator is serialized: at
\* no moment are two callbacks mutating the orchestrator's aggregate state
\* concurrently, so no update is lost or torn.
C33_CallbacksSerialized ==
  cb.pc = "running" => (Cardinality(InsideCallback) <= 1 /\ NoLostUpdate)

\* C34: session ids are unique: every create_session call on one
\* orchestrator returns an id different from the id returned by every other
\* call, including calls for the same task name and component that
\* interleave on different threads.
C34_SessionIdsUnique ==
  pool.pc = "running" =>
    \A j, k \in DOMAIN pool.returned :
      (j # k /\ pool.returned[j] # <<>>) => pool.returned[j] # pool.returned[k]

\* the tasks whose _execute_task call holds an executor thread, from
\* create_session on
PoolOccupying ==
  {pool.threads[t].task : t \in {u \in PoolThreads : pool.threads[u].pc # "free"}}

\* C39: during a parallel execute_workflow at most max_parallel_sessions + 2
\* worker processes of the workflow are alive, for any number of submitted
\* tasks: each task occupies an executor thread from session creation until
\* its worker process has exited.
C39_LiveWorkersBoundedByPool ==
  pool.pc = "running" =>
    /\ Cardinality(pool.alive) <= max_parallel_sessions + 2
    /\ pool.alive \subseteq PoolOccupying

\* C10: in a workflow executed through OrchestratorHandler, a task has a
\* session only if the session of every task it depends on has completed.
C10_DependenciesRespected ==
  wf.entry = "handler" =>
    \A t \in Tasks : tasks[t].state # "queued" =>
      \A d \in wf.defs[t].dependencies :
        \E u \in Tasks :
          /\ wf.defs[u].name = d
          /\ tasks[u].state # "queued"
          /\ \E k \in DOMAIN orch.completed_sessions :
               orch.completed_sessions[k] = tasks[u].session

====
